---------------------------- MODULE Spec2Model ----------------------------
(***************************************************************************)
(* Verification model of the pzip core of deepin-compressor:               *)
(*   - WorkerPool<T>            (src/src/pzip/include/pzip/worker_pool.h)  *)
(*   - Archiver                 (src/unnamed/part_000, archiver.cpp)       *)
(*   - ZipWriter                (src/src/pzip/src/zip_writer.cpp)          *)
(*   - FlateWriter and encoders (src/unnamed/part_002, fast_deflate.cpp)   *)
(*                                                                         *)
(* The module holds several specifications over one set of variables:      *)
(*   SpecPool    one WorkerPool driven by producers and a controller       *)
(*   SpecArchive Archiver::archive() with its two pools                    *)
(*   SpecZip     ZipWriter call sequences                                  *)
(*   SpecFlate   FlateWriter write()/close() streams                       *)
(* Each specification leaves the variables of the others unchanged.        *)
(***************************************************************************)
EXTENDS Integers, Sequences, FiniteSets, TLC

VARIABLES
    \* ---- WorkerPool<T> fields, one entry per pool object ----
    tasks,         \* tasks_      : pool -> queue of task ids
    shutdown,      \* shutdown_   : pool -> BOOLEAN
    cancelled,     \* cancelled_  : pool -> BOOLEAN
    firstError,    \* firstError_ : pool -> error code
    running,       \* running_    : pool -> BOOLEAN
    conc,          \* concurrency_: pool -> number of workers
    cap,           \* capacity_   : pool -> queue capacity
    \* ---- threads ----
    pc,            \* thread -> position in its code
    held,          \* thread -> task pointer held in a local variable
    perr,          \* thread -> Error value held in a local variable
    \* ---- history of the pools (observation only) ----
    accepted,      \* pool -> tasks pushed by enqueue(), in push order
    executed,      \* pool -> tasks handed to the executor, in call order
    finished,      \* pool -> set of tasks whose executor call returned
    discarded,     \* pool -> set of tasks popped by cancel() or skipped
    errLog,        \* pool -> errors returned by executors, in errorMutex_ order
    closeResult,   \* pool -> value returned by close(), "none" before
    cancelCalled,  \* pool -> cancel() has returned
    queuedAtClose, \* pool -> queue length when close() set shutdown_
    \* ---- supply of tasks ----
    nextTask,      \* next task id a producer / the walker will create
    \* ---- Archiver fields ----
    arCancelled,   \* Archiver::cancelled_
    processedFiles,\* Archiver::processedFiles_
    totalFiles,    \* Archiver::totalFiles_
    archiveResult, \* value returned by archive(), "none" while it runs
    cancelMidway,  \* cancel() was called while archive() ran with members
                   \* enqueued but not yet written (observation only)
    omitted,       \* paths walkDirectory passed over because
                   \* FileTask::reset failed (observation only)
    \* ---- ZipWriter fields ----
    zOpen,         \* file_.is_open()
    zGood,         \* file_.good()
    currentOffset, \* currentOffset_ (64 bit, as <<high, low>> limbs)
    centralDir,    \* centralDir_ : sequence of [h, offset]
    \* ---- the archive file and the calls on ZipWriter (observation only) ----
    fileLen,       \* number of bytes that reached the file
    lfhLog,        \* local file headers in the file: sequence of
                   \* [id, pos, rec], rec the header's fields
    ddLog,         \* data descriptors in the file: sequence of [id, rec]
    rdEntries,     \* ZipReader::entries_ after the last ZipReader::open()
    cdOut,         \* central-directory records in the file
    eocdOut,       \* end-of-central-directory records in the file (0 or 1)
    zCalls,        \* number of ZipWriter calls made so far
    zOp,           \* the last ZipWriter call
    zRet,          \* the error the last ZipWriter call returned
    \* ---- FlateWriter / FastDeflate ----
    window,        \* window_[0 .. windowEnd_-1]
    encoder,       \* encoderL1_ : [hist, cur, table]
    tokens,        \* tokens_    : [n, arr, litHist, extraHist, offHist, fill]
    writer,        \* writer_    : [out, lastHeader, lastHuffMan, penalty,
                   \*               litEnc]
    \* ---- the caller of the compressor (observation only) ----
    flInput,       \* the bytes to compress
    flLevel,       \* the CompressionLevel passed to the constructor
    flFed,         \* how many bytes of flInput were passed to write()
    flState,       \* "idle", "new", "open" or "closed"
    flApi,         \* which interface was used
    \* ---- FileTask fields ----
    tkBuffer,      \* buffer_[0 .. bufferUsed_-1]
    tkWritten,     \* written_
    tkOverflow,    \* overflow_ : "null", or the state of the fstream:
                   \* "good", or "failed" (not open, or failbit set)
    tkSpillExists, \* fs::exists(overflowPath_)
    tkSpill,       \* the bytes of the file at overflowPath_
    tkWhere,       \* who owns the FileTask: "caller", or "pool" (it is in
                   \* FileTaskPool::pool_), or "gone" (destroyed)
    tkPoolOthers,  \* number of other FileTasks in FileTaskPool::pool_
    \* ---- the caller of the FileTask (observation only) ----
    tkOffered,     \* number of bytes passed to write() since reset()
    tkAccepted,    \* the bytes write() reported as written since reset()
    tkReplay,      \* the chunks the last readCompressedData() passed on
    tkReplays,     \* readCompressedData() calls since reset()
    tkOp,          \* the last FileTask call
    tkRet,         \* the value the last write() returned
    \* ---- Extractor and the disk it writes to ----
    exFs,          \* the file system: path -> [kind, data, mode, time]
    exOverwrite,   \* options_.overwrite
    exPreserve,    \* options_.preservePermissions
    exCancelled,   \* Extractor::cancelled_
    \* ---- the calls on the Extractor (observation only) ----
    exFsBefore,    \* the file system before the last extractFile()
    exEntry,       \* the entry of the last extractFile()
    exRet,         \* the error the last extractFile() returned
    exCalls,       \* number of extractFile() calls made so far
    exOp,          \* the last Extractor call
    \* ---- Archiver: options, members' lifetime, FileTask ownership ----
    arLevel,       \* options_.compressionLevel
    arPaths,       \* paths.size() of the archive() call
    destroyed,     \* the members of the Archiver whose destructor has run
    \* ---- the Archiver's calls on other objects (observation only) ----
    usedLevel,     \* level of the FlateWriter compress() built last, 0: none
    handed,        \* tasks the walker passed to fileProcessPool_->enqueue
    released,      \* task -> number of FileTaskPool::release calls for it
    \* ---- one call of Tokens::addMatchLong (observation only) ----
    mtLength,      \* the match length passed, 0 before the call
    mtDistance,    \* the match distance s - t of the call
    mtTokens,      \* the tokens the call appended
    \* ---- a ZipWriter called by the workers of a pool, step by step ----
    writeMutex,    \* writeMutex_: the thread that holds it, or NoThread
    shOpen,        \* file_.is_open()
    shFile,        \* the parts written to file_, each <<member, part>>
    shOffset,      \* currentOffset_, counted in parts
    shDir,         \* centralDir_: [id, offset] per member
    shEntry        \* thread -> entry.localHeaderOffset of its createRaw()

poolVars == <<tasks, shutdown, cancelled, firstError, running, conc, cap>>
thrVars  == <<pc, held, perr>>
histVars == <<accepted, executed, finished, discarded, errLog, closeResult,
              cancelCalled, queuedAtClose>>
harnVars == <<nextTask>>
arVars   == <<arCancelled, processedFiles, totalFiles, archiveResult,
              cancelMidway, omitted>>
zipVars  == <<zOpen, zGood, currentOffset, centralDir, fileLen, lfhLog, ddLog,
              rdEntries, cdOut, eocdOut, zCalls, zOp, zRet>>
flVars   == <<window, encoder, tokens, writer, flInput, flLevel, flFed,
              flState, flApi>>
tkVars   == <<tkBuffer, tkWritten, tkOverflow, tkSpillExists, tkSpill,
              tkWhere, tkPoolOthers, tkOffered, tkAccepted, tkReplay, tkReplays, tkOp, tkRet>>
exVars   == <<exFs, exOverwrite, exPreserve, exCancelled, exFsBefore,
              exEntry, exRet, exCalls, exOp>>
alVars   == <<arLevel, arPaths, destroyed, usedLevel, handed, released>>
mtVars   == <<mtLength, mtDistance, mtTokens>>
shVars   == <<writeMutex, shOpen, shFile, shOffset, shDir, shEntry>>
extVars  == <<arVars, zipVars, flVars, tkVars, exVars, alVars, mtVars, shVars>>

vars == <<poolVars, thrVars, histVars, harnVars, extVars>>

(***************************************************************************)
(* Bounds of the model.                                                    *)
(***************************************************************************)
MaxTasks    == 3      \* tasks the producers of SpecPool create
MaxWorkers  == 2      \* largest concurrency explored
MaxCapacity == 1      \* largest queue capacity explored in SpecPool
MaxPaths    == 2      \* paths handed to Archiver::archive() in SpecArchive
MaxCalls    == 5      \* ZipWriter calls made in SpecZip
WindowSize  == 128    \* window_.size() in SpecFlate (MAX_STORE_BLOCK_SIZE)

(***************************************************************************)
(* Objects.                                                                *)
(***************************************************************************)
Pools      == {"process", "writer"}
\* Threads are named <<role, index>>.
CompressWorkers == {<<"c", i>> : i \in 1..MaxWorkers}  \* workers_ of "process"
WriterWorker    == <<"wr", 1>>                         \* workers_ of "writer"
Workers    == CompressWorkers \cup {WriterWorker}
Producers  == {<<"p", 1>>, <<"p", 2>>}
Ctl        == <<"ctl", 1>>      \* the thread that calls close() in SpecPool
User       == <<"user", 1>>     \* the thread that calls cancel()
Main       == <<"main", 1>>     \* the thread that calls Archiver::archive()
Threads    == Workers \cup Producers \cup {Ctl, User, Main}
NoTask     == 0

\* The pool a worker thread belongs to (workers_ of that pool).
PoolOf(w)  == IF w = WriterWorker THEN "writer" ELSE "process"
\* The pool a thread calls enqueue() on.
EnqPool(t) == IF t \in CompressWorkers THEN "writer" ELSE "process"
\* Worker threads spawned by start(): the first conc[p] of the pool.
WorkerIndex(w) == w[2]
Spawned(p) == {w \in Workers : PoolOf(w) = p /\ WorkerIndex(w) <= conc[p]}

\* ErrorCode (common.h); only the codes the modelled code produces.
OK == "OK"
ErrorCodes == {"OK", "FILE_OPEN_ERROR", "FILE_READ_ERROR",
               "FILE_WRITE_ERROR", "FILE_NOT_FOUND", "CANCELLED"}
\* Error::operator bool
IsErr(e) == e # OK

(***************************************************************************)
(* Condition variables.  A thread blocked in taskAvailable_.wait has       *)
(* pc = "asleep"; one blocked in spaceAvailable_.wait has                   *)
(* pc = "enq_asleep".  A worker at "presleep" has evaluated the wait        *)
(* predicate to false and still holds mutex_.                               *)
(***************************************************************************)
TaskSleepers(p)  == {t \in Workers : pc[t] = "asleep" /\ PoolOf(t) = p}
SpaceSleepers(p) == {t \in Threads : pc[t] = "enq_asleep" /\ EnqPool(t) = p}
MutexFree(p)     == \A w \in Workers : ~(pc[w] = "presleep" /\ PoolOf(w) = p)

\* std::condition_variable::notify_one: wakes one waiter if there is any.
NotifyOne(S) == IF S = {} THEN {{}} ELSE {{t} : t \in S}
\* A woken thread re-acquires mutex_ and re-evaluates its predicate.
WokenPc(old) == IF old = "asleep" THEN "lock" ELSE "enq"
Wake(f, S)   == [t \in Threads |-> IF t \in S THEN WokenPc(f[t]) ELSE f[t]]

(***************************************************************************)
(* WorkerPool<T>::workerThread  (worker_pool.h:188-224)                    *)
(***************************************************************************)
\* Variant: the newest task is handed out first.
QueueBack(q)  == q[Len(q)]
\* tasks_.front() / tasks_.pop()
QueueFront(q) == Head(q)
QueuePop(q)   == Tail(q)

\* Variant: a worker that leaves as soon as shutdown_ is set, queue drained
\* or not.
WorkerReturnsOnShutdown(p) == cancelled[p] \/ shutdown[p]
\* Line 200: the condition on which workerThread returns.
WorkerReturns(p) == cancelled[p] \/ (shutdown[p] /\ tasks[p] = <<>>)

\* Lines 194-208: lock mutex_, evaluate the wait predicate, then either
\* block, return, or dequeue one task and notify spaceAvailable_.
WorkerLock(w) ==
    LET p == PoolOf(w) IN
    /\ pc[w] = "lock"
    /\ MutexFree(p)
    /\ IF ~(tasks[p] # <<>> \/ shutdown[p] \/ cancelled[p])
       THEN /\ pc' = [pc EXCEPT ![w] = "presleep"]
            /\ UNCHANGED <<tasks, held>>
       ELSE IF WorkerReturns(p)
       THEN /\ pc' = [pc EXCEPT ![w] = "exited"]
            /\ UNCHANGED <<tasks, held>>
       ELSE /\ held' = [held EXCEPT ![w] = QueueFront(tasks[p])]
            /\ tasks' = [tasks EXCEPT ![p] = QueuePop(tasks[p])]
            /\ \E ws \in NotifyOne(SpaceSleepers(p)) :
                  pc' = Wake([pc EXCEPT ![w] = "check"], ws)
    /\ UNCHANGED <<shutdown, cancelled, firstError, running, conc, cap,
                   perr, histVars, harnVars, extVars>>

\* Line 196: taskAvailable_.wait releases mutex_ and blocks.
WorkerSleep(w) ==
    /\ pc[w] = "presleep"
    /\ pc' = [pc EXCEPT ![w] = "asleep"]
    /\ UNCHANGED <<poolVars, held, perr, histVars, harnVars, extVars>>

\* Line 211: if (task && !cancelled_) the executor is called, otherwise the
\* dequeued task is dropped and the loop starts over.
WorkerCheck(w) ==
    LET p == PoolOf(w) IN
    /\ pc[w] = "check"
    /\ IF held[w] # NoTask /\ ~cancelled[p]
       THEN /\ pc' = [pc EXCEPT ![w] = "exec"]
            /\ executed' = [executed EXCEPT ![p] = Append(@, held[w])]
            /\ UNCHANGED <<held, discarded>>
       ELSE /\ pc' = [pc EXCEPT ![w] = "lock"]
            /\ discarded' = [discarded EXCEPT ![p] = @ \cup {held[w]}]
            /\ held' = [held EXCEPT ![w] = NoTask]
            /\ UNCHANGED executed
    /\ UNCHANGED <<poolVars, perr, accepted, finished, errLog, closeResult,
                   cancelCalled, queuedAtClose, harnVars, extVars>>

\* Variant: the error slot is overwritten by every failing executor.
StoreErrorLast(old, err) == err
\* Lines 214-221: under errorMutex_ keep the first error, set cancelled_
\* and notify taskAvailable_ (spaceAvailable_ is not notified here).
StoreError(old, err) == IF ~IsErr(old) THEN err ELSE old
ErrorWakes(p)        == TaskSleepers(p)

WorkerSetErr(w) ==
    LET p == PoolOf(w) IN
    /\ pc[w] = "seterr"
    /\ firstError' = [firstError EXCEPT ![p] = StoreError(@, perr[w])]
    /\ cancelled' = [cancelled EXCEPT ![p] = TRUE]
    /\ errLog' = [errLog EXCEPT ![p] = Append(@, perr[w])]
    /\ pc' = Wake([pc EXCEPT ![w] = "lock"], ErrorWakes(p))
    /\ perr' = [perr EXCEPT ![w] = OK]
    /\ UNCHANGED <<tasks, shutdown, running, conc, cap, held, accepted,
                   executed, finished, discarded, closeResult, cancelCalled,
                   queuedAtClose, harnVars, extVars>>

(***************************************************************************)
(* WorkerPool<T>::enqueue  (worker_pool.h:130-143)                         *)
(***************************************************************************)
\* Where the caller continues when enqueue() returns.
EnqRet(t) == CASE t \in Producers       -> "idle"
               [] t \in CompressWorkers -> "cf_ret"
               [] OTHER                 -> "walk"

\* enqueue()'s parameter dies when it returns; a worker that calls enqueue()
\* from its executor still has the pointer in workerThread's local `task`.
ArgAfterEnqueue(t) == IF t \in Workers THEN held[t] ELSE NoTask

\* Variant: a producer also goes on when the queue is exactly full.
SpacePredLoose(p) == Len(tasks[p]) <= cap[p] \/ shutdown[p] \/ cancelled[p]
\* The predicate of spaceAvailable_.wait (line 136).
SpacePred(p) == Len(tasks[p]) < cap[p] \/ shutdown[p] \/ cancelled[p]

Enqueue(t) ==
    LET p == EnqPool(t) IN
    /\ pc[t] = "enq"
    /\ p \notin destroyed
    /\ MutexFree(p)
    /\ IF ~SpacePred(p)
       THEN /\ pc' = [pc EXCEPT ![t] = "enq_asleep"]
            /\ UNCHANGED <<tasks, held, accepted>>
       ELSE IF shutdown[p] \/ cancelled[p]
       THEN /\ pc' = [pc EXCEPT ![t] = EnqRet(t)]
            /\ held' = [held EXCEPT ![t] = ArgAfterEnqueue(t)]
            /\ UNCHANGED <<tasks, accepted>>
       ELSE /\ tasks' = [tasks EXCEPT ![p] = Append(@, held[t])]
            /\ accepted' = [accepted EXCEPT ![p] = Append(@, held[t])]
            /\ held' = [held EXCEPT ![t] = ArgAfterEnqueue(t)]
            /\ \E ws \in NotifyOne(TaskSleepers(p)) :
                  pc' = Wake([pc EXCEPT ![t] = EnqRet(t)], ws)
    /\ UNCHANGED <<shutdown, cancelled, firstError, running, conc, cap, perr,
                   executed, finished, discarded, errLog, closeResult,
                   cancelCalled, queuedAtClose, harnVars, extVars>>

(***************************************************************************)
(* WorkerPool<T>::close  (worker_pool.h:145-165)                           *)
(***************************************************************************)
\* Lines 147-152: set shutdown_ under mutex_, notify both condition variables.
PoolCloseBegin(t, p, from, to) ==
    /\ pc[t] = from
    /\ MutexFree(p)
    /\ shutdown' = [shutdown EXCEPT ![p] = TRUE]
    /\ queuedAtClose' = [queuedAtClose EXCEPT ![p] = Len(tasks[p])]
    /\ pc' = Wake([pc EXCEPT ![t] = to], TaskSleepers(p) \cup SpaceSleepers(p))

\* Lines 154-164: join every worker, clear running_, return firstError_.
CloseValue(p) == firstError[p]

\* Variant: close() that does not wait for its workers.
JoinedNoWait(p) == TRUE
\* Lines 154-158: worker.join() has returned for every worker of the pool.
Joined(p) == \A w \in Spawned(p) : pc[w] = "exited"

PoolCloseJoin(t, p, from, to) ==
    /\ pc[t] = from
    /\ Joined(p)
    /\ running' = [running EXCEPT ![p] = FALSE]
    /\ closeResult' = [closeResult EXCEPT ![p] = CloseValue(p)]
    /\ pc' = [pc EXCEPT ![t] = to]

(***************************************************************************)
(* WorkerPool<T>::cancel  (worker_pool.h:167-180)                          *)
(***************************************************************************)
\* Variant: cancel() that forgets taskAvailable_.notify_all().
CancelWakesSpaceOnly(p) == SpaceSleepers(p)
CancelWakes(p) == TaskSleepers(p) \cup SpaceSleepers(p)

PoolCancel(t, p, from, to) ==
    /\ pc[t] = from
    /\ MutexFree(p)
    /\ cancelled' = [cancelled EXCEPT ![p] = TRUE]
    /\ tasks' = [tasks EXCEPT ![p] = <<>>]
    /\ discarded' = [discarded EXCEPT ![p] =
                        @ \cup {tasks[p][i] : i \in 1..Len(tasks[p])}]
    /\ cancelCalled' = [cancelCalled EXCEPT ![p] = TRUE]
    /\ pc' = Wake([pc EXCEPT ![t] = to], CancelWakes(p))

\* std::condition_variable::wait may return without a notification.
SpuriousWake(t) ==
    /\ pc[t] \in {"asleep", "enq_asleep"}
    /\ pc' = [pc EXCEPT ![t] = WokenPc(pc[t])]
    /\ UNCHANGED <<poolVars, held, perr, histVars, harnVars, extVars>>

(***************************************************************************)
(* 64-bit quantities (uint64_t currentOffset_, sizes).  A value v is kept   *)
(* as <<v \div Limb, v % Limb>>; within the bounds explored the high limb   *)
(* stays far below 2^48, so additions never wrap.                           *)
(***************************************************************************)
Limb == 65536
U64Of(n) == <<n \div Limb, n % Limb>>
U64Add(a, b) == <<a[1] + b[1] + ((a[2] + b[2]) \div Limb), (a[2] + b[2]) % Limb>>
U64Sub(a, b) == IF a[2] >= b[2] THEN <<a[1] - b[1], a[2] - b[2]>>
                ELSE <<a[1] - b[1] - 1, a[2] + Limb - b[2]>>
U64Less(a, b) == a[1] < b[1] \/ (a[1] = b[1] /\ a[2] < b[2])
U64Leq(a, b)  == a = b \/ U64Less(a, b)
\* static_cast<uint32_t>(v)
Low32(a) == <<a[1] % Limb, a[2]>>
\* ZIP_UINT32_MAX = 0xFFFFFFFF, ZIP_UINT16_MAX = 0xFFFF
ZIP_UINT32_MAX == <<Limb - 1, Limb - 1>>
ZIP_UINT16_MAX == Limb - 1

(***************************************************************************)
(* ZipWriter  (src/src/pzip/src/zip_writer.cpp)                            *)
(*                                                                         *)
(* A header h is [id, nameLen, endsSlash, extraLen, crc, csize, usize,     *)
(* dd]: id names the member, dd is ZIP_FLAG_DATA_DESCRIPTOR.  Every write  *)
(* may fail (disk full, I/O error); a failed write leaves the stream bad   *)
(* for good, and is taken to put no byte into the file.  The fault         *)
(* parameter f names the write of the call that fails, if any.             *)
(***************************************************************************)
LOCAL_HEADER_LEN      == 30
DATA_DESCRIPTOR_LEN   == 16
DATA_DESCRIPTOR64_LEN == 24
DIRECTORY_HEADER_LEN  == 46
ZIP64_EXTRA_LEN       == 28
DIRECTORY64_END_LEN   == 56
DIRECTORY64_LOC_LEN   == 20
DIRECTORY_END_LEN     == 22
ZIP_VERSION_20        == 20
ZIP_VERSION_45        == 45
EXTRA_ID_ZIP64        == 1
ZIP64_EXTRA_DATA_LEN  == 24

ZipFaults == {"none", "lfh", "data", "dd"}

\* Variant: a size of exactly 0xFFFFFFFF is not ZIP64.
IsZip64Above(h) ==
    U64Less(ZIP_UINT32_MAX, h.csize) \/ U64Less(ZIP_UINT32_MAX, h.usize)
\* ZipFileHeader::isZip64
IsZip64(h) == U64Leq(ZIP_UINT32_MAX, h.csize) \/ U64Leq(ZIP_UINT32_MAX, h.usize)

\* The local file header writeLocalFileHeader writes for h (lines 116-195):
\* version needed, the two 32-bit size fields, the lengths of name and extra
\* field, and the ZIP64 extra field it holds.  The extra field written is
\* header.extra as it stands (lines 176 and 182): no ZIP64 extra is built.
LocalHeader(h) ==
    [versionNeeded |-> IF IsZip64(h) THEN ZIP_VERSION_45 ELSE ZIP_VERSION_20,
     crc32         |-> IF h.dd THEN 0 ELSE h.crc,
     csize32       |-> IF h.dd THEN U64Of(0)
                       ELSE IF IsZip64(h) THEN ZIP_UINT32_MAX
                       ELSE Low32(h.csize),
     usize32       |-> IF h.dd THEN U64Of(0)
                       ELSE IF IsZip64(h) THEN ZIP_UINT32_MAX
                       ELSE Low32(h.usize),
     nameLen       |-> h.nameLen,
     extraLen      |-> h.extraLen,
     extra64       |-> <<>>]

\* Bytes writeLocalFileHeader puts into buf (lines 118-185).
LocalHeaderSize(h) == LOCAL_HEADER_LEN + h.nameLen + h.extraLen
\* Bytes writeDataDescriptor puts into buf (lines 220-240).
DataDescriptorSize(h) ==
    IF IsZip64(h) THEN DATA_DESCRIPTOR64_LEN ELSE DATA_DESCRIPTOR_LEN

\* The data descriptor writeDataDescriptor writes for h (lines 196-250):
\* the CRC and the two sizes, as 64-bit values when h.isZip64().
DataDescriptor(h) ==
    [crc32 |-> h.crc,
     csize |-> IF IsZip64(h) THEN h.csize ELSE Low32(h.csize),
     usize |-> IF IsZip64(h) THEN h.usize ELSE Low32(h.usize),
     len   |-> DataDescriptorSize(h)]

\* Variant: the entry offset is taken after the local header was written.
EntryOffsetAfterHeader(before, after) == after
\* Line 263: entry.localHeaderOffset = currentOffset_, read before the
\* local header is written.
EntryOffset(before, after) == before

\* Variant: the entry is put in front of the central-directory list.
DirectoryPrepend(cd, entry) == <<entry>> \o cd
\* Line 285: centralDir_.push_back(entry).
DirectoryAppend(cd, entry) == Append(cd, entry)

\* ZipWriter::createRaw (lines 252-287) as a function of the writer's state:
\* the error returned and the state left behind.  dataSize is the number of
\* bytes the data provider hands to the write callback.
CreateRawResult(h, dataSize, f) ==
    IF ~zOpen
    THEN [err |-> "FILE_OPEN_ERROR", good |-> zGood, off |-> currentOffset,
          len |-> fileLen, lfh |-> lfhLog, dds |-> ddLog, cd |-> centralDir]
    ELSE
    LET lfhOk  == zGood /\ f # "lfh"
        hdr    == U64Of(LocalHeaderSize(h))
        off1   == IF lfhOk THEN U64Add(currentOffset, hdr) ELSE currentOffset
        len1   == IF lfhOk THEN U64Add(fileLen, hdr) ELSE fileLen
        lfh1   == IF lfhOk
                  THEN Append(lfhLog, [id |-> h.id, pos |-> fileLen,
                                       rec |-> LocalHeader(h)])
                  ELSE lfhLog
        dataOk == lfhOk /\ ~(f = "data" /\ dataSize # U64Of(0))
        \* line 272 advances currentOffset_ whether or not the write worked
        off2   == IF lfhOk THEN U64Add(off1, dataSize) ELSE off1
        len2   == IF dataOk THEN U64Add(len1, dataSize) ELSE len1
        ddOk   == dataOk /\ ~(h.dd /\ f = "dd")
        dd     == U64Of(DataDescriptorSize(h))
        off3   == IF ddOk /\ h.dd THEN U64Add(off2, dd) ELSE off2
        len3   == IF ddOk /\ h.dd THEN U64Add(len2, dd) ELSE len2
    IN  [err  |-> IF ddOk THEN OK ELSE "FILE_WRITE_ERROR",
         good |-> ddOk,
         off  |-> off3,
         len  |-> len3,
         lfh  |-> lfh1,
         dds  |-> IF ddOk /\ h.dd
                  THEN Append(ddLog, [id |-> h.id, rec |-> DataDescriptor(h)])
                  ELSE ddLog,
         cd   |-> IF ddOk
                  THEN DirectoryAppend(centralDir,
                              [h |-> h,
                               offset |-> EntryOffset(currentOffset, off1)])
                  ELSE centralDir]

\* The call as a step: the state moves to what CreateRawResult describes.
ZipCreateRaw(h, dataSize, f, op) ==
    LET r == CreateRawResult(h, dataSize, f) IN
    /\ zGood' = r.good
    /\ currentOffset' = r.off
    /\ fileLen' = r.len
    /\ lfhLog' = r.lfh
    /\ ddLog' = r.dds
    /\ centralDir' = r.cd
    /\ zCalls' = zCalls + 1
    /\ zOp' = op
    /\ zRet' = r.err
    /\ UNCHANGED <<zOpen, cdOut, eocdOut, rdEntries>>

\* ZipWriter::createDirectory (lines 303-320): the name gets a trailing '/',
\* sizes are zeroed, the data-descriptor flag is cleared, no data is written.
DirectoryHeader(h) ==
    [h EXCEPT !.nameLen = IF h.nameLen > 0 /\ ~h.endsSlash THEN @ + 1 ELSE @,
              !.endsSlash = h.nameLen > 0,
              !.csize = U64Of(0), !.usize = U64Of(0), !.crc = 0,
              !.dd = FALSE]

ZipCreateDirectory(h, f) ==
    ZipCreateRaw(DirectoryHeader(h), U64Of(0), f, "createDirectory")

\* ZipWriter::open (lines 77-95); ok tells whether the file could be created.
ZipOpen(ok) ==
    /\ zCalls' = zCalls + 1
    /\ UNCHANGED rdEntries
    /\ zOp' = "open"
    /\ IF zOpen
       THEN /\ zRet' = "FILE_OPEN_ERROR"
            /\ UNCHANGED <<zOpen, zGood, currentOffset, centralDir, fileLen,
                           lfhLog, ddLog, cdOut, eocdOut>>
       ELSE IF ~ok
       THEN /\ zRet' = "FILE_OPEN_ERROR"
            /\ zGood' = FALSE
            /\ UNCHANGED <<zOpen, currentOffset, centralDir, fileLen, lfhLog,
                           ddLog, cdOut, eocdOut>>
       ELSE /\ zRet' = OK
            /\ zOpen' = TRUE
            /\ zGood' = TRUE
            /\ currentOffset' = U64Of(0)
            /\ centralDir' = <<>>
            /\ fileLen' = U64Of(0)      \* std::ios::trunc
            /\ lfhLog' = <<>>
            /\ ddLog' = <<>>
            /\ cdOut' = <<>>
            /\ eocdOut' = <<>>

\* Variant: an offset of exactly 0xFFFFFFFF does not ask for ZIP64.
NeedZip64Above(e) == IsZip64(e.h) \/ U64Less(ZIP_UINT32_MAX, e.offset)
\* writeCentralDirectory, line 355.
NeedZip64(e) == IsZip64(e.h) \/ U64Leq(ZIP_UINT32_MAX, e.offset)

\* The ZIP64 extra field of entry e (lines 394-414): header id, data size,
\* then uncompressed size, compressed size and local-header offset as
\* 64-bit values; empty when needZip64 is false.
Zip64Extra(e) ==
    IF NeedZip64(e)
    THEN <<EXTRA_ID_ZIP64, ZIP64_EXTRA_DATA_LEN, e.h.usize, e.h.csize,
           e.offset>>
    ELSE <<>>

\* The central-directory record written for entry e (lines 357-438): the
\* fields that locate the member.  offset64 is the offset stored in the
\* ZIP64 extra field, present exactly when needZip64.
CentralRecord(e) ==
    [id            |-> e.h.id,
     versionNeeded |-> IF NeedZip64(e) THEN ZIP_VERSION_45 ELSE ZIP_VERSION_20,
     nameLen       |-> e.h.nameLen,
     crc32         |-> e.h.crc,
     zip64         |-> NeedZip64(e),
     csize32       |-> IF NeedZip64(e) THEN ZIP_UINT32_MAX ELSE Low32(e.h.csize),
     usize32       |-> IF NeedZip64(e) THEN ZIP_UINT32_MAX ELSE Low32(e.h.usize),
     csize64       |-> e.h.csize,
     usize64       |-> e.h.usize,
     offset32      |-> IF U64Less(ZIP_UINT32_MAX, e.offset)
                       THEN ZIP_UINT32_MAX ELSE Low32(e.offset),
     offset64      |-> e.offset,
     extraLen      |-> e.h.extraLen + (IF NeedZip64(e) THEN ZIP64_EXTRA_LEN
                                       ELSE 0),
     extra64       |-> Zip64Extra(e)]

\* Bytes written for entry e (lines 441-458).
CentralRecordSize(e) ==
    DIRECTORY_HEADER_LEN + e.h.nameLen + e.h.extraLen
        + (IF NeedZip64(e) THEN ZIP64_EXTRA_LEN ELSE 0)

RECURSIVE CentralDirSize(_)
CentralDirSize(cd) ==
    IF cd = <<>> THEN U64Of(0)
    ELSE U64Add(U64Of(CentralRecordSize(Head(cd))), CentralDirSize(Tail(cd)))

CentralRecords(cd) == [i \in 1..Len(cd) |-> CentralRecord(cd[i])]

\* The offset a reader takes from a central-directory record: the 32-bit
\* field, or the ZIP64 extra field when the 32-bit field holds 0xFFFFFFFF.
RecordedOffset(r) ==
    IF r.offset32 = ZIP_UINT32_MAX /\ r.zip64 THEN r.offset64 ELSE r.offset32

\* writeEndOfCentralDirectory (lines 468-609) for a directory of `records`
\* entries of `size` bytes that starts at `offset` and ends at `cdEnd`.
EndRecord(records, size, offset, cdEnd) ==
    LET z64 == \/ records >= ZIP_UINT16_MAX
               \/ U64Leq(ZIP_UINT32_MAX, size)
               \/ U64Leq(ZIP_UINT32_MAX, offset)
    IN  [zip64     |-> z64,
         records16 |-> IF z64 THEN ZIP_UINT16_MAX ELSE records,
         size32    |-> IF z64 THEN ZIP_UINT32_MAX ELSE Low32(size),
         offset32  |-> IF z64 THEN ZIP_UINT32_MAX ELSE Low32(offset),
         records64 |-> records,
         size64    |-> size,
         offset64  |-> offset,
         locator   |-> cdEnd]

EndRecordSize(r) ==
    DIRECTORY_END_LEN
        + (IF r.zip64 THEN DIRECTORY64_END_LEN + DIRECTORY64_LOC_LEN ELSE 0)

CloseFaults == {"none", "cd", "eocd"}

\* ZipWriter::close (lines 611-632).  It takes no lock.  Both error returns
\* leave the file open.
ZipClose(f) ==
    /\ zCalls' = zCalls + 1
    /\ UNCHANGED rdEntries
    /\ zOp' = "close"
    /\ IF ~zOpen
       THEN /\ zRet' = OK
            /\ UNCHANGED <<zOpen, zGood, currentOffset, centralDir, fileLen,
                           lfhLog, ddLog, cdOut, eocdOut>>
       ELSE
       LET cdOffset == currentOffset
           cdSize   == CentralDirSize(centralDir)
           cdEnd    == U64Add(cdOffset, cdSize)
           cdOk     == zGood /\ ~(f = "cd" /\ centralDir # <<>>)
           end      == EndRecord(Len(centralDir), cdSize, cdOffset, cdEnd)
           endOk    == cdOk /\ f # "eocd"
       IN  /\ UNCHANGED <<centralDir, lfhLog, ddLog>>
           /\ zGood' = endOk
           /\ zRet' = IF endOk THEN OK ELSE "FILE_WRITE_ERROR"
           /\ zOpen' = ~endOk
           \* lines 442-457 and 560 advance currentOffset_ without looking
           \* at the stream; the 22-byte end record is not counted
           /\ currentOffset' =
                 IF cdOk /\ end.zip64
                 THEN U64Add(cdEnd, U64Of(DIRECTORY64_END_LEN
                                          + DIRECTORY64_LOC_LEN))
                 ELSE cdEnd
           /\ cdOut' = IF cdOk THEN CentralRecords(centralDir) ELSE cdOut
           /\ eocdOut' = IF endOk THEN <<end>> ELSE eocdOut
           /\ fileLen' =
                 IF endOk
                 THEN U64Add(U64Add(fileLen, cdSize), U64Of(EndRecordSize(end)))
                 ELSE IF cdOk THEN U64Add(fileLen, cdSize) ELSE fileLen

InitZipIdle ==
    /\ zOpen = FALSE
    /\ zGood = TRUE
    /\ currentOffset = U64Of(0)
    /\ centralDir = <<>>
    /\ fileLen = U64Of(0)
    /\ lfhLog = <<>>
    /\ ddLog = <<>>
    /\ rdEntries = <<>>
    /\ cdOut = <<>>
    /\ eocdOut = <<>>
    /\ zCalls = 0
    /\ zOp = "none"
    /\ zRet = OK

(***************************************************************************)
(* ZipReader  (src/src/pzip/src/zip_reader.cpp)                            *)
(*                                                                         *)
(* The reader is given the file the writer left: the local headers of      *)
(* lfhLog, the central-directory records of cdOut and the end record of    *)
(* eocdOut, in a file of fileLen bytes.                                    *)
(***************************************************************************)
\* A 32-bit field read into a uint64_t member (lines 158-159, 166): the four
\* bytes are or-ed as int, so that bit 31 is copied into the upper 32 bits.
\* The value is [ones, low]: ones tells that the upper 32 bits are all set.
WidenInt(v) == [ones |-> v[1] >= Limb \div 2, low |-> v]

\* The value as the writer holds it, for comparison.
Exact(v) == [ones |-> FALSE, low |-> v]

\* The entry readCentralDirectory builds from record r (lines 143-185).
\* The extra field is stored as bytes; no field is taken from it.
ReaderEntry(r) ==
    [id                |-> r.id,
     crc32             |-> r.crc32,
     compressedSize    |-> WidenInt(r.csize32),
     uncompressedSize  |-> WidenInt(r.usize32),
     localHeaderOffset |-> WidenInt(r.offset32),
     dataOffset        |-> U64Of(0)]

\* readLocalFileHeader (lines 196-220): the error it returns for entry en,
\* or OK.  A read beyond the end of the file fails; bytes that are not a
\* local header fail the signature test.
LocalHeaderAt(pos) == {i \in 1..Len(lfhLog) : lfhLog[i].pos = pos}
ReadLocalError(en) ==
    IF \/ en.localHeaderOffset.ones
       \/ U64Less(fileLen, U64Add(en.localHeaderOffset.low,
                                  U64Of(LOCAL_HEADER_LEN)))
    THEN "FILE_READ_ERROR"
    ELSE IF LocalHeaderAt(en.localHeaderOffset.low) = {}
    THEN "INVALID_ARCHIVE"
    ELSE OK

\* Lines 214-217: dataOffset = localHeaderOffset + 30 + nameLen + extraLen,
\* the lengths taken from the local header.
WithDataOffset(en) ==
    IF IsErr(ReadLocalError(en)) THEN en
    ELSE LET l == lfhLog[CHOOSE i \in LocalHeaderAt(en.localHeaderOffset.low) :
                            TRUE].rec
         IN  [en EXCEPT !.dataOffset =
                 U64Add(en.localHeaderOffset.low,
                        U64Of(LOCAL_HEADER_LEN + l.nameLen + l.extraLen))]

\* ZipReader::open (lines 42-67) on the file: readEndOfCentralDirectory
\* (lines 75-130) takes the number of entries and the directory offset from
\* the classic end record, readCentralDirectory (lines 132-194) reads that
\* many records from that offset and then every local header.  When the end
\* record holds the ZIP64 markers, the offset 0xFFFFFFFF is not where 65535
\* records are.
ReaderOpenResult ==
    IF eocdOut = <<>>
    THEN [err |-> "INVALID_ARCHIVE", entries |-> <<>>]
    ELSE
    LET Opened(end) ==
            IF end.zip64
            THEN [err |-> IF U64Less(fileLen,
                                     U64Add(end.offset32,
                                            U64Of(DIRECTORY_HEADER_LEN)))
                          THEN "FILE_READ_ERROR" ELSE "INVALID_ARCHIVE",
                  entries |-> <<>>]
            ELSE LET Checked(ens) ==
                         IF \E i \in 1..Len(ens) : IsErr(ReadLocalError(ens[i]))
                         THEN [err |-> ReadLocalError(
                                          ens[CHOOSE i \in 1..Len(ens) :
                                                /\ IsErr(ReadLocalError(ens[i]))
                                                /\ \A j \in 1..(i - 1) :
                                                     ~IsErr(ReadLocalError(
                                                               ens[j]))]),
                               entries |-> ens]
                         ELSE [err |-> OK,
                               entries |-> [i \in 1..Len(ens) |->
                                              WithDataOffset(ens[i])]]
                 IN  Checked([i \in 1..end.records16 |->
                                ReaderEntry(cdOut[i])])
    IN  Opened(eocdOut[1])

\* ZipReader::open() as a step, on an archive the writer has closed.
ZipReaderOpen ==
    /\ ~zOpen
    /\ eocdOut # <<>>
    /\ rdEntries' = ReaderOpenResult.entries
    /\ zOp' = "readerOpen"
    /\ zRet' = ReaderOpenResult.err
    /\ UNCHANGED <<zOpen, zGood, currentOffset, centralDir, fileLen, lfhLog,
                   ddLog, cdOut, eocdOut, zCalls>>

(***************************************************************************)
(* Archiver  (src/unnamed/part_000)                                        *)
(*                                                                         *)
(* Main runs archive(): open the writer, start both pools, walk the paths  *)
(* and enqueue one task per path into the process pool, close the process  *)
(* pool, close the writer pool.  Compress workers run compressFile, the    *)
(* single writer worker runs archiveFile.  User may call cancel().         *)
(***************************************************************************)
InitArchiverIdle ==
    /\ arCancelled = FALSE
    /\ processedFiles = 0
    /\ totalFiles = 0
    /\ archiveResult = "none"
    /\ cancelMidway = FALSE
    /\ omitted = {}

\* ArchiverOptions::compressionLevel when the caller sets none (part_005:20)
DEFAULT_LEVEL == 1
\* CompressionLevel::BestSpeed (fast_deflate.h:42)
BEST_SPEED == 1
\* FileTasks are named by the index of the path they are made for.
LongPaths == 4
TaskIds == 1..LongPaths

\* Archiver::Archiver (part_000:40-62) with options_.compressionLevel out of
\* levels, before archive() is called with paths paths.
ArchiverNew(levels, paths) ==
    /\ arLevel \in levels
    /\ arPaths = paths
    /\ destroyed = {}
    /\ usedLevel = 0
    /\ handed = {}
    /\ released = [t \in TaskIds |-> 0]

InitLifeIdle == ArchiverNew({DEFAULT_LEVEL}, MaxPaths)

\* Positions of Main inside ~Archiver.
DtorPcs == {"dW_cancel", "dW_close", "dW_join", "dP", "dP_cancel",
            "dP_close", "dP_join", "dZ", "destroyed"}

\* Positions of Main between the first and the last statement of archive().
ArchiveRunning == pc[Main] \notin {"none", "ar_open", "returned"} \cup DtorPcs

\* archive(), lines 66-67: writer_->open().
MainOpen ==
    /\ pc[Main] = "ar_open"
    /\ \E ok \in BOOLEAN :
         /\ ZipOpen(ok)
         /\ IF ok
            THEN /\ pc' = [pc EXCEPT ![Main] = "ar_start"]
                 /\ UNCHANGED archiveResult
            ELSE /\ pc' = [pc EXCEPT ![Main] = "returned"]
                 /\ archiveResult' = "FILE_OPEN_ERROR"
    /\ UNCHANGED <<flVars, tkVars, exVars, alVars, mtVars, shVars, poolVars, held, perr, histVars, harnVars, arCancelled,
                   processedFiles, totalFiles, cancelMidway, omitted>>

\* WorkerPool::start (worker_pool.h:115-128) for one pool, as a function on
\* the thread positions.
StartedPc(f, p) ==
    [t \in Threads |-> IF t \in Spawned(p) THEN "lock" ELSE f[t]]

\* archive(), lines 70-71: both pools are started.
MainStart ==
    /\ pc[Main] = "ar_start"
    /\ running' = [p \in Pools |-> TRUE]
    /\ shutdown' = [p \in Pools |-> FALSE]
    /\ cancelled' = [p \in Pools |-> FALSE]
    /\ firstError' = [p \in Pools |-> OK]
    /\ pc' = StartedPc(StartedPc([pc EXCEPT ![Main] = "walk"], "process"),
                       "writer")
    /\ UNCHANGED <<tasks, conc, cap, held, perr, histVars, harnVars, extVars>>

\* What the walker finds at a path: a file it enqueues, the archive itself
\* (skipped), a path it cannot stat / reset (archive() returns the error),
\* or an entry of a directory for which FileTask::reset fails: walkDirectory
\* releases the task and goes on (lines 140-145 and 151-159).
WalkOutcomes == {"enqueue", "skip", "fail", "unreadable"}

\* archive(), lines 74-106: one iteration of the loop over paths, up to the
\* call of enqueue(); the loop ends on cancelled_ or after the last path.
MainWalk ==
    /\ pc[Main] = "walk"
    /\ IF arCancelled \/ nextTask > arPaths
       THEN /\ pc' = [pc EXCEPT ![Main] = "closeP"]
            /\ UNCHANGED <<held, nextTask, totalFiles, archiveResult,
                           omitted, handed, released>>
       ELSE \E o \in WalkOutcomes :
              /\ nextTask' = nextTask + 1
              /\ CASE o = "enqueue" ->
                        /\ totalFiles' = totalFiles + 1
                        /\ held' = [held EXCEPT ![Main] = nextTask]
                        /\ pc' = [pc EXCEPT ![Main] = "enq"]
                        /\ handed' = handed \cup {nextTask}
                        /\ UNCHANGED <<archiveResult, omitted, released>>
                   [] o = "skip" ->
                        /\ UNCHANGED <<pc, held, totalFiles, archiveResult,
                                       omitted, handed, released>>
                   [] o = "fail" ->
                        /\ archiveResult' = "FILE_NOT_FOUND"
                        /\ pc' = [pc EXCEPT ![Main] = "returned"]
                        /\ UNCHANGED <<held, totalFiles, omitted, handed,
                                       released>>
                   [] o = "unreadable" ->
                        /\ omitted' = omitted \cup {nextTask}
                        /\ released' = [released EXCEPT ![nextTask] = @ + 1]
                        /\ UNCHANGED <<pc, held, totalFiles, archiveResult,
                                       handed>>
    /\ UNCHANGED <<flVars, tkVars, exVars, mtVars, shVars, poolVars, perr, histVars,
                   arCancelled, processedFiles, cancelMidway, zipVars,
                   arLevel, arPaths, destroyed, usedLevel>>

\* archive(), line 109: fileProcessPool_->close(), first half.
MainCloseProcess ==
    /\ PoolCloseBegin(Main, "process", "closeP", "joinP")
    /\ UNCHANGED <<tasks, cancelled, firstError, running, conc, cap, held,
                   perr, accepted, executed, finished, discarded, errLog,
                   closeResult, cancelCalled, harnVars, extVars>>

\* archive(), lines 109-110: the process pool is joined; an error ends
\* archive() without closing the writer pool.
MainJoinProcess ==
    /\ PoolCloseJoin(Main, "process", "joinP",
                     IF IsErr(CloseValue("process")) THEN "returned"
                     ELSE "closeW")
    /\ archiveResult' = IF IsErr(CloseValue("process"))
                        THEN CloseValue("process") ELSE archiveResult
    /\ UNCHANGED <<flVars, tkVars, exVars, alVars, mtVars, shVars, tasks, shutdown, cancelled, firstError, conc, cap, held,
                   perr, accepted, executed, finished, discarded, errLog,
                   cancelCalled, queuedAtClose, harnVars, arCancelled,
                   processedFiles, totalFiles, cancelMidway, omitted,
                   zipVars>>

\* archive(), line 112: fileWriterPool_->close(), first half.
MainCloseWriter ==
    /\ PoolCloseBegin(Main, "writer", "closeW", "joinW")
    /\ UNCHANGED <<tasks, cancelled, firstError, running, conc, cap, held,
                   perr, accepted, executed, finished, discarded, errLog,
                   closeResult, cancelCalled, harnVars, extVars>>

\* archive(), lines 112-115: the writer pool is joined and archive() returns
\* its error, or OK.
MainJoinWriter ==
    /\ PoolCloseJoin(Main, "writer", "joinW", "returned")
    /\ archiveResult' = CloseValue("writer")
    /\ UNCHANGED <<flVars, tkVars, exVars, alVars, mtVars, shVars, tasks, shutdown, cancelled, firstError, conc, cap, held,
                   perr, accepted, executed, finished, discarded, errLog,
                   cancelCalled, queuedAtClose, harnVars, arCancelled,
                   processedFiles, totalFiles, cancelMidway, omitted,
                   zipVars>>

\* The level of the FlateWriter Archiver::compress builds (line 199): the
\* default of the constructor's parameter (fast_deflate.h:487).
FlateWriterLevel == BEST_SPEED

\* Archiver::compress (lines 182-238) returns OK or the error of the file
\* it could not open or read.
CompressResults == {"OK", "FILE_OPEN_ERROR", "FILE_READ_ERROR"}

\* Archiver::compressFile (lines 164-180) up to the call of
\* fileWriterPool_->enqueue(task).
CompressFile(w) ==
    /\ w \in CompressWorkers
    /\ pc[w] = "exec"
    /\ IF arCancelled
       THEN /\ perr' = [perr EXCEPT ![w] = "CANCELLED"]
            /\ pc' = [pc EXCEPT ![w] = "seterr"]
            /\ finished' = [finished EXCEPT !["process"] = @ \cup {held[w]}]
            /\ held' = [held EXCEPT ![w] = NoTask]
            /\ UNCHANGED usedLevel
       ELSE \E r \in CompressResults :
              \* compress(), lines 199-201: once the file is open the
              \* FlateWriter is built, with no level argument
              /\ usedLevel' = IF r = "FILE_OPEN_ERROR" THEN usedLevel
                              ELSE FlateWriterLevel
              /\ IF IsErr(r)
                 THEN /\ perr' = [perr EXCEPT ![w] = r]
                      /\ pc' = [pc EXCEPT ![w] = "seterr"]
                      /\ finished' = [finished EXCEPT !["process"] =
                                         @ \cup {held[w]}]
                      /\ held' = [held EXCEPT ![w] = NoTask]
                 ELSE /\ pc' = [pc EXCEPT ![w] = "enq"]
                      /\ UNCHANGED <<perr, finished, held>>
    /\ UNCHANGED <<poolVars, accepted, executed, discarded, errLog,
                   closeResult, cancelCalled, queuedAtClose, harnVars,
                   arVars, zipVars, flVars, tkVars, exVars, mtVars, shVars,
                   arLevel, arPaths, destroyed, handed, released>>

\* compressFile, line 179: back from enqueue(), the executor returns OK.
CompressReturn(w) ==
    /\ w \in CompressWorkers
    /\ pc[w] = "cf_ret"
    /\ pc' = [pc EXCEPT ![w] = "lock"]
    /\ finished' = [finished EXCEPT !["process"] = @ \cup {held[w]}]
    /\ held' = [held EXCEPT ![w] = NoTask]
    /\ UNCHANGED <<poolVars, perr, accepted, executed, discarded, errLog,
                   closeResult, cancelCalled, queuedAtClose, harnVars,
                   extVars>>

\* Archiver::cancel (lines 321-329), statement by statement.
CancelSetFlag ==
    /\ pc[User] = "idle"
    /\ arCancelled' = TRUE
    /\ cancelMidway' = (ArchiveRunning /\ processedFiles < totalFiles)
    /\ pc' = [pc EXCEPT ![User] = "cancelP"]
    /\ UNCHANGED <<flVars, tkVars, exVars, alVars, mtVars, shVars, poolVars, held, perr, histVars, harnVars,
                   processedFiles, totalFiles, archiveResult, omitted,
                   zipVars>>

CancelProcessPool ==
    /\ PoolCancel(User, "process", "cancelP", "cancelW")
    /\ UNCHANGED <<shutdown, firstError, running, conc, cap, held, perr,
                   accepted, executed, finished, errLog, closeResult,
                   queuedAtClose, harnVars, extVars>>

CancelWriterPool ==
    /\ PoolCancel(User, "writer", "cancelW", "done")
    /\ UNCHANGED <<shutdown, firstError, running, conc, cap, held, perr,
                   accepted, executed, finished, errLog, closeResult,
                   queuedAtClose, harnVars, extVars>>

\* ~Archiver (part_000:62): the members are destroyed in the reverse order
\* of their declaration (part_005:104-106), fileWriterPool_ first, then
\* fileProcessPool_, then writer_.  The positions of Main in the destructor
\* of each pool:
DtorPc ==
    [writer  |-> [begin |-> "returned", cancel |-> "dW_cancel",
                  close |-> "dW_close", join |-> "dW_join", done |-> "dP"],
     process |-> [begin |-> "dP", cancel |-> "dP_cancel",
                  close |-> "dP_close", join |-> "dP_join", done |-> "dZ"]]

\* ~WorkerPool (worker_pool.h:107-113): "if (running_)", and the end of the
\* destructor for a pool that is not running.
PoolDtorBegin(p) ==
    /\ pc[Main] = DtorPc[p].begin
    /\ IF running[p]
       THEN /\ pc' = [pc EXCEPT ![Main] = DtorPc[p].cancel]
            /\ UNCHANGED destroyed
       ELSE /\ pc' = [pc EXCEPT ![Main] = DtorPc[p].done]
            /\ destroyed' = destroyed \cup {p}
    /\ UNCHANGED <<poolVars, held, perr, histVars, harnVars, arVars, zipVars,
                   flVars, tkVars, exVars, mtVars, shVars, arLevel, arPaths,
                   usedLevel, handed, released>>

\* ~WorkerPool, line 110: cancel().
PoolDtorCancel(p) ==
    /\ PoolCancel(Main, p, DtorPc[p].cancel, DtorPc[p].close)
    /\ UNCHANGED <<shutdown, firstError, running, conc, cap, held, perr,
                   accepted, executed, finished, errLog, closeResult,
                   queuedAtClose, harnVars, extVars>>

\* ~WorkerPool, line 111: close(), first half.
PoolDtorClose(p) ==
    /\ PoolCloseBegin(Main, p, DtorPc[p].close, DtorPc[p].join)
    /\ UNCHANGED <<tasks, cancelled, firstError, running, conc, cap, held,
                   perr, accepted, executed, finished, discarded, errLog,
                   closeResult, cancelCalled, harnVars, extVars>>

\* ~WorkerPool, line 111: close() has joined the workers and its value is
\* dropped; the members of the pool are destroyed.
PoolDtorJoin(p) ==
    /\ pc[Main] = DtorPc[p].join
    /\ Joined(p)
    /\ running' = [running EXCEPT ![p] = FALSE]
    /\ pc' = [pc EXCEPT ![Main] = DtorPc[p].done]
    /\ destroyed' = destroyed \cup {p}
    /\ UNCHANGED <<tasks, shutdown, cancelled, firstError, conc, cap, held,
                   perr, accepted, executed, finished, discarded, errLog,
                   closeResult, cancelCalled, queuedAtClose, harnVars, arVars, zipVars,
                   flVars, tkVars, exVars, mtVars, shVars, arLevel, arPaths,
                   usedLevel, handed, released>>

\* ZipWriter::~ZipWriter (zip_writer.cpp:71-75): close() if the file is open.
DtorZipWriter ==
    /\ pc[Main] = "dZ"
    /\ pc' = [pc EXCEPT ![Main] = "destroyed"]
    /\ destroyed' = destroyed \cup {"zip"}
    /\ IF zOpen
       THEN \E f \in CloseFaults : ZipClose(f)
       ELSE UNCHANGED zipVars
    /\ UNCHANGED <<poolVars, held, perr, histVars, harnVars, arVars, flVars,
                   tkVars, exVars, mtVars, shVars, arLevel, arPaths, usedLevel,
                   handed, released>>

\* The outcomes of a call on a WorkerPool that has been destroyed: the
\* memory still reads as the cancelled pool and enqueue() returns, or the
\* thread faults or blocks on the dead mutex for good.
DeadPoolOutcomes == {"returns", "fault"}

\* compressFile, line 178: fileWriterPool_->enqueue(task) when the writer
\* pool has been destroyed.
EnqueueDestroyed(w) ==
    /\ w \in CompressWorkers
    /\ pc[w] = "enq"
    /\ EnqPool(w) \in destroyed
    /\ \E o \in DeadPoolOutcomes :
          pc' = [pc EXCEPT ![w] = IF o = "returns" THEN EnqRet(w)
                                  ELSE "fault"]
    /\ UNCHANGED <<poolVars, held, perr, histVars, harnVars, extVars>>

(***************************************************************************)
(* DEFLATE encoder: Tokens, FastEncL1, HuffmanEncoder, HuffmanBitWriter,   *)
(* FlateWriter and FastDeflate (fast_deflate.h, fast_deflate.cpp).         *)
(*                                                                         *)
(* Bytes are numbers 0..255 and buffers are sequences, indexed from 0 as   *)
(* in the source (element p of buffer d is d[p + 1]).  The compressed      *)
(* stream is kept as the sequence of its parts (block headers, Huffman     *)
(* code words, stored bytes) instead of packed bits; Inflate reads that    *)
(* sequence the way an RFC 1951 decoder reads the bits.  Levels 0..3 are   *)
(* modelled (useL1_, FastEncL1).  WindowSize scales window_.size(); every  *)
(* other constant keeps the value it has in the source.                    *)
(***************************************************************************)
MAX_MATCH_LENGTH     == 258
MAX_MATCH_OFFSET     == 32768
MAX_STORE_BLOCK_SIZE == 65535
ALLOC_HISTORY        == MAX_STORE_BLOCK_SIZE * 5
END_BLOCK_MARKER     == 256
LENGTH_CODES_START   == 257
LITERAL_COUNT        == 286
OFFSET_CODE_COUNT    == 30
LENGTH_SHIFT         == 22

Pow2(k) == IF k = 0 THEN 1 ELSE 2 ^ k

MATCH_TYPE == Pow2(30)
UINT16     == Pow2(16)    \* uint16_t counters wrap at this value

Min(a, b) == IF a < b THEN a ELSE b
Max(a, b) == IF a > b THEN a ELSE b

\* Arrays that are mostly zero are kept as functions on their non-zero part.
NoEntries     == [x \in {} |-> 0]
Get(f, x)     == IF x \in DOMAIN f THEN f[x] ELSE 0
Put(f, x, v)  == [y \in DOMAIN f \cup {x} |-> IF y = x THEN v ELSE f[y]]
Incr16(f, x)  == Put(f, x, (Get(f, x) + 1) % UINT16)

\* f[lo] + ... + f[hi]
RECURSIVE Sum(_, _, _)
Sum(f, lo, hi) ==
    IF lo > hi THEN 0
    ELSE IF lo = hi THEN f[lo]
    ELSE LET mid == (lo + hi) \div 2
         IN  Sum(f, lo, mid) + Sum(f, mid + 1, hi)

\* ------------------------------------------------------------------------
\* Static tables
\* ------------------------------------------------------------------------
lengthExtraBits ==
    <<0, 0, 0, 0, 0, 0, 0, 0, 1, 1, 1, 1, 2, 2, 2, 2,
      3, 3, 3, 3, 4, 4, 4, 4, 5, 5, 5, 5, 0, 0, 0, 0>>
lengthBase ==
    <<0, 1, 2, 3, 4, 5, 6, 7, 8, 10, 12, 14, 16, 20, 24, 28,
      32, 40, 48, 56, 64, 80, 96, 112, 128, 160, 192, 224, 255, 0, 0, 0>>
offsetExtraBits ==
    <<0, 0, 0, 0, 1, 1, 2, 2, 3, 3, 4, 4, 5, 5, 6, 6,
      7, 7, 8, 8, 9, 9, 10, 10, 11, 11, 12, 12, 13, 13, 14, 14>>
offsetBase ==
    <<0, 1, 2, 3, 4, 6, 8, 12, 16, 24, 32, 48, 64, 96, 128, 192,
      256, 384, 512, 768, 1024, 1536, 2048, 3072, 4096, 6144, 8192, 12288,
      16384, 24576, 32768, 49152>>
codegenOrder ==
    <<16, 17, 18, 0, 8, 7, 9, 6, 10, 5, 11, 4, 12, 3, 13, 2, 14, 1, 15>>

\* offsetCombined[i] = extra bits | base << 8, left 0 where the code has no
\* extra bits or its base exceeds 0x6000; kept as the pair it packs.
offsetCombined(i) ==
    IF offsetExtraBits[i + 1] = 0 \/ offsetBase[i + 1] > 24576
    THEN [bits |-> 0, base |-> 0]
    ELSE [bits |-> offsetExtraBits[i + 1], base |-> offsetBase[i + 1]]

\* lengthCodes1[xl]: entry xl of the table is 1 + the last length code
\* whose base does not exceed xl (codes 0..28).
lengthCodes1(xl) ==
    1 + (CHOOSE i \in 0..28 :
            /\ lengthBase[i + 1] <= xl
            /\ \A j \in (i + 1)..28 : lengthBase[j + 1] > xl)

\* offsetCodes[off] (off < 256) and offsetCodes14[off >> 7] (otherwise):
\* in both tables the entry is the last offset code whose base does not
\* exceed off (codes 0..29).
offsetCode(off) ==
    CHOOSE i \in 0..29 :
        /\ offsetBase[i + 1] <= off
        /\ \A j \in (i + 1)..29 : offsetBase[j + 1] > off

\* ------------------------------------------------------------------------
\* load32 / hash5
\* ------------------------------------------------------------------------
Load(data, p, k) == SubSeq(data, p + 1, p + k)
load32(data, p)  == Load(data, p, 4)

\* PRIME_5_BYTES = 889523592379, least significant byte first
PRIME_5_BYTES == <<187, 220, 188, 27, 207>>

\* hash5(u) = ((u << 24) * PRIME_5_BYTES) >> 49 on 64 bits: the top 15 bits
\* of the low 40 bits of (low five bytes of u) * PRIME_5_BYTES.  b holds the
\* five bytes, least significant first.
hash5(b) ==
    LET p  == PRIME_5_BYTES
        c0 == b[1] * p[1]
        c1 == b[1] * p[2] + b[2] * p[1] + (c0 \div 256)
        c2 == b[1] * p[3] + b[2] * p[2] + b[3] * p[1] + (c1 \div 256)
        c3 == b[1] * p[4] + b[2] * p[3] + b[3] * p[2] + b[4] * p[1]
              + (c2 \div 256)
        Top(k3) ==
            LET c4 == b[1] * p[5] + b[2] * p[4] + b[3] * p[3] + b[4] * p[2]
                      + b[5] * p[1] + (k3 \div 256)
            IN  (c4 % 256) * 128 + ((k3 % 256) \div 2)
    IN  Top(c3)

\* hash5 of the 64-bit word loaded at p (only bytes p..p+4 reach the hash)
Hash5At(data, p) == hash5(Load(data, p, 5))

\* ------------------------------------------------------------------------
\* Tokens
\* ------------------------------------------------------------------------
\* A Tokens object is [n, arr, litHist, extraHist, offHist, fill]: arr is
\* the part of the tokens array written so far and fill the content of the
\* elements never written (the array has no initialiser, and reset() does
\* not clear it).
makeLiteralToken(lit) == lit
makeMatchToken(xlength, xoffset) ==
    MATCH_TYPE + xlength * Pow2(LENGTH_SHIFT) + xoffset

TokenAt(tk, i) == IF i < Len(tk.arr) THEN tk.arr[i + 1] ELSE tk.fill

StoreToken(tk, i, v) ==
    [j \in 1..Max(Len(tk.arr), i + 1) |->
        IF j = i + 1 THEN v
        ELSE IF j <= Len(tk.arr) THEN tk.arr[j] ELSE tk.fill]

TokensReset(tk) ==
    [tk EXCEPT !.n = 0, !.litHist = NoEntries, !.extraHist = NoEntries,
               !.offHist = NoEntries]

\* tokens[n] = literal; litHist[lit]++; n++
AddLiteral(tk, lit) ==
    [tk EXCEPT !.arr = StoreToken(tk, tk.n, makeLiteralToken(lit)),
               !.litHist = Incr16(tk.litHist, lit),
               !.n = (tk.n + 1) % UINT16]

\* Variant: a long match is always cut at 258 bytes.
MatchChunkGreedy(xlength) == IF xlength > 258 THEN 258 ELSE xlength
\* addMatchLong, lines 242-245: the part of the match the next token takes.
MatchChunk(xlength) ==
    IF xlength > 258
    THEN (IF xlength > 258 + 3 THEN 258 ELSE 258 - 3)
    ELSE xlength

RECURSIVE MatchLongLoop(_, _, _, _)
MatchLongLoop(tk, xlength, xoffset, oc) ==
    IF xlength <= 0 THEN tk
    ELSE LET xl0 == MatchChunk(xlength)
             xl  == xl0 - 3
             tk1 == [tk EXCEPT
                       !.extraHist = Incr16(tk.extraHist,
                                            lengthCodes1(xl % 256)),
                       !.offHist = Incr16(tk.offHist, oc % 32),
                       !.arr = StoreToken(tk, tk.n,
                                          makeMatchToken(xl, xoffset)),
                       !.n = (tk.n + 1) % UINT16]
         IN  MatchLongLoop(tk1, xlength - xl0, xoffset, oc)

AddMatchLong(tk, xlength, xoffset) ==
    LET Coded(oc) == MatchLongLoop(tk, xlength, xoffset + oc * 65536, oc)
    IN  Coded(offsetCode(xoffset))

\* The length and the distance a match token stands for, as writeTokens
\* reads them (part_002:744 and 778-780); the token holds length - 3 and
\* distance - 1.
BASE_MATCH_LENGTH == 3
TokenLength(t)   == ((t \div Pow2(LENGTH_SHIFT)) % 256) + BASE_MATCH_LENGTH
TokenDistance(t) == ((t % Pow2(LENGTH_SHIFT)) % 65536) + 1
TokenIsMatch(t)  == t >= MATCH_TYPE

\* The matches FastEncL1::encode and FastEncL4::encode pass to addMatchLong
\* (part_002:241-258 and 392-408): four bytes compared with load32, up to
\* MAX_MATCH_LENGTH - 4 more from matchLen, and the bytes of the backward
\* extension, of which MaxBackward are explored; the distance s - t is
\* accepted up to MAX_MATCH_OFFSET.
MaxBackward    == 540
MatchLengths   == 4..(MAX_MATCH_LENGTH + MaxBackward)
MatchDistances == {1, 2, 3, 4, 5, 256, 257, 24576, 32767, MAX_MATCH_OFFSET}

InitMatchIdle ==
    /\ mtLength = 0
    /\ mtDistance = 0
    /\ mtTokens = <<>>

\* dst->addMatchLong(l, s - t - 1) on an empty token buffer.
MatchEmit ==
    /\ mtLength = 0
    /\ \E l \in MatchLengths, d \in MatchDistances :
         LET Emitted(tk) == SubSeq(tk.arr, 1, tk.n)
         IN  /\ mtLength' = l
             /\ mtDistance' = d
             /\ mtTokens' = Emitted(AddMatchLong(
                    [n |-> 0, arr |-> <<>>, litHist |-> NoEntries,
                     extraHist |-> NoEntries, offHist |-> NoEntries,
                     fill |-> 0], l, d - 1))

AddEOB(tk) ==
    [tk EXCEPT !.arr = StoreToken(tk, tk.n, END_BLOCK_MARKER),
               !.n = (tk.n + 1) % UINT16]

\* the literal loops of encode(), "for (i = from; i < to; ++i) { tokens[n] =
\* data[i]; litHist[data[i]]++; n++; }", as the state they end in
EmitLiterals(tk, data, from, to) ==
    IF from >= to THEN tk
    ELSE
    LET cnt == to - from
        at(b) == Cardinality({i \in from..(to - 1) : data[i + 1] = b})
    IN  [tk EXCEPT
           !.arr = [j \in 1..Max(Len(tk.arr), tk.n + cnt) |->
                      IF j > tk.n /\ j <= tk.n + cnt
                      THEN makeLiteralToken(data[from + (j - tk.n)])
                      ELSE IF j <= Len(tk.arr) THEN tk.arr[j] ELSE tk.fill],
           !.litHist = [b \in DOMAIN tk.litHist
                              \cup {data[i + 1] : i \in from..(to - 1)} |->
                          (Get(tk.litHist, b) + at(b)) % UINT16],
           !.n = (tk.n + cnt) % UINT16]

\* ------------------------------------------------------------------------
\* FastGen / FastEncL1
\* ------------------------------------------------------------------------
\* An encoder is [hist, cur, table]; table maps a hash to TableEntry.offset
\* and holds only the entries that are not 0.
NewEncoder == [hist |-> <<>>, cur |-> MAX_STORE_BLOCK_SIZE,
               table |-> NoEntries]

inputMargin            == 11
minNonLiteralBlockSize == 13
skipLog                == 5
doEvery                == 2
bufferReset            == 2147483647 - ALLOC_HISTORY - MAX_STORE_BLOCK_SIZE - 1

FastGenAddBlock(en, src) ==
    IF Len(en.hist) + Len(src) > ALLOC_HISTORY
       /\ Len(en.hist) - MAX_MATCH_OFFSET > 0
    THEN LET offset == Len(en.hist) - MAX_MATCH_OFFSET
         IN  [en EXCEPT
                !.hist = SubSeq(en.hist, offset + 1,
                                offset + MAX_MATCH_OFFSET) \o src,
                !.cur = en.cur + offset]
    ELSE [en EXCEPT !.hist = en.hist \o src]

FastEncL1Reset(en) ==
    [hist |-> <<>>, cur |-> en.cur + MAX_MATCH_OFFSET + Len(en.hist),
     table |-> NoEntries]

EncoderRebase(en) ==
    IF en.cur < bufferReset THEN en
    ELSE IF en.hist = <<>>
    THEN [en EXCEPT !.table = NoEntries, !.cur = MAX_MATCH_OFFSET]
    ELSE LET minOff == en.cur + Len(en.hist) - MAX_MATCH_OFFSET
         IN  [en EXCEPT
                !.table = [h \in DOMAIN en.table |->
                             IF en.table[h] <= minOff THEN 0
                             ELSE en.table[h] - en.cur + MAX_MATCH_OFFSET],
                !.cur = MAX_MATCH_OFFSET]

\* matchLen(a, b, maxLen): the number of equal leading bytes, at most maxLen
matchLen(data, a, b, maxLen) ==
    CHOOSE n \in 0..maxLen :
        /\ \A j \in 0..(n - 1) : data[a + j + 1] = data[b + j + 1]
        /\ (n = maxLen \/ data[a + n + 1] # data[b + n + 1])

\* the backward extension loop "while (t > 0 && s > nextEmit && data[t-1] ==
\* data[s-1])": how many times it steps s and t back
ExtendBack(data, s, t, nextEmit) ==
    CHOOSE n \in 0..Min(t, s - nextEmit) :
        /\ \A j \in 1..n : data[t - j + 1] = data[s - j + 1]
        /\ (n = Min(t, s - nextEmit) \/ data[t - n] # data[s - n])

\* One pass of the search loop (both probes).  e = [phase, s, t, nextS,
\* nextEmit, table, tk]; cv always holds the word loaded at s.
SearchStep(data, cur, sLimit, e) ==
    LET s     == e.s
        nextS == s + doEvery + ((s - e.nextEmit) \div Pow2(skipLog))
        \* the second probe, at nextS
        Probe2(tab1, nextHash2) ==
            LET s2     == nextS
                nextS2 == nextS + 1
                t2     == Get(tab1, nextHash2) - cur
                tab2   == Put(tab1, nextHash2, s2 + cur)
            IN  IF s2 - t2 < MAX_MATCH_OFFSET
                   /\ load32(data, s2) = load32(data, t2)
                THEN [e EXCEPT !.phase = "match", !.s = s2, !.t = t2,
                               !.nextS = nextS2,
                               !.table = Put(tab2, Hash5At(data, nextS2),
                                             nextS2 + cur)]
                ELSE [e EXCEPT !.s = nextS2, !.nextS = nextS2,
                               !.table = tab2]
        \* the first probe, at s
        Probe1(nextHash, nextHash2) ==
            LET t    == Get(e.table, nextHash) - cur
                tab1 == Put(e.table, nextHash, s + cur)
            IN  IF s - t < MAX_MATCH_OFFSET
                   /\ load32(data, s) = load32(data, t)
                THEN [e EXCEPT !.phase = "match", !.t = t, !.nextS = nextS,
                               !.table = Put(tab1, nextHash2, nextS + cur)]
                ELSE Probe2(tab1, nextHash2)
    IN  IF nextS > sLimit THEN [e EXCEPT !.phase = "emitRemainder"]
        ELSE Probe1(Hash5At(data, s), Hash5At(data, nextS))

\* One pass of the inner match loop.
MatchStep(data, cur, sLimit, e) ==
    LET maxLen == Min(Len(data) - e.s - 4, MAX_MATCH_LENGTH - 4)
        \* the probe at s3 that decides whether the match loop goes on
        Probe(e1, s3, tabA, hx) ==
            LET t3   == Get(tabA, hx) - cur
                tabB == Put(tabA, hx, cur + s3)
            IN  IF s3 - t3 > MAX_MATCH_OFFSET
                   \/ load32(data, s3) # load32(data, t3)
                THEN [e1 EXCEPT !.phase = "search", !.s = s3 + 1,
                                !.table = tabB]
                ELSE [e1 EXCEPT !.s = s3, !.t = t3, !.table = tabB]
        \* after the match was emitted (e1 holds the tokens and nextEmit)
        Emitted(e1, s3) ==
            IF s3 >= sLimit
            THEN [e1 EXCEPT !.phase = "emitRemainder", !.s = s3,
                            !.table = IF s3 + 8 < Len(data)
                                      THEN Put(e.table, Hash5At(data, s3),
                                               s3 + cur)
                                      ELSE e.table]
            ELSE Probe(e1, s3,
                       Put(e.table, Hash5At(data, s3 - 2), cur + s3 - 2),
                       Hash5At(data, s3))
        \* the match of l0 bytes at s, extended back bytes backwards
        Found(l0, back) ==
            LET s1 == e.s - back
                t1 == e.t - back
                l  == l0 + back
                s2 == s1 + l
            IN  Emitted([e EXCEPT
                           !.tk = AddMatchLong(
                                      EmitLiterals(e.tk, data, e.nextEmit, s1),
                                      l, s1 - t1 - 1),
                           !.nextEmit = s2],
                        IF e.nextS >= s2 THEN e.nextS + 1 ELSE s2)
    IN  Found(matchLen(data, e.s + 4, e.t + 4, maxLen) + 4,
              ExtendBack(data, e.s, e.t, e.nextEmit))

\* The outer "while (true)" of encode(): 2^k passes of the two loops, or
\* fewer when emitRemainder is reached.  Every pass moves s forward and a
\* block has at most MAX_STORE_BLOCK_SIZE bytes, so 2^17 passes reach it.
RECURSIVE EncodePasses(_, _, _, _, _)
EncodePasses(k, data, cur, sLimit, e) ==
    IF e.phase = "emitRemainder" THEN e
    ELSE IF k = 0
    THEN (IF e.phase = "search" THEN SearchStep(data, cur, sLimit, e)
          ELSE MatchStep(data, cur, sLimit, e))
    ELSE EncodePasses(k - 1, data, cur, sLimit,
                      EncodePasses(k - 1, data, cur, sLimit, e))
EncodeLoop(data, cur, sLimit, e) == EncodePasses(17, data, cur, sLimit, e)

\* FastEncL1::encode(dst, src, len): the encoder and the Tokens after it
FastEncL1Encode(en, tk, src) ==
    LET \* emitRemainder: the literals after the last match
        Remainder(en1, e) ==
            [en |-> [en1 EXCEPT !.table = e.table],
             tk |-> IF e.nextEmit < Len(en1.hist) /\ e.tk.n # 0
                    THEN EmitLiterals(e.tk, en1.hist, e.nextEmit,
                                      Len(en1.hist))
                    ELSE e.tk]
        \* the block starts at s0 of the history
        Block(en1, s0) ==
            IF Len(src) < minNonLiteralBlockSize
            THEN [en |-> en1, tk |-> [tk EXCEPT !.n = Len(src) % UINT16]]
            ELSE Remainder(en1,
                     EncodeLoop(en1.hist, en1.cur,
                         Len(en1.hist) - inputMargin,
                         [phase |-> "search", s |-> s0, t |-> 0,
                          nextS |-> s0, nextEmit |-> s0,
                          table |-> en1.table, tk |-> tk]))
        Added(en1) == Block(en1, Len(en1.hist) - Len(src))
    IN  Added(FastGenAddBlock(EncoderRebase(en), src))

\* ------------------------------------------------------------------------
\* HuffmanEncoder (code lengths; a symbol without a code has length 0)
\* ------------------------------------------------------------------------
\* bitCounts(): the code length given to each list position, taken from the
\* end of the sorted list (i = n-1) to its start.
RECURSIVE BitsFor(_, _, _, _)
BitsFor(bits, needed, maxBits, bitsRemaining) ==
    IF bits < maxBits /\ needed <= bitsRemaining \div 2
    THEN BitsFor(bits + 1, needed * 2, maxBits, bitsRemaining)
    ELSE bits
\* the passes lo..hi of the for loop of bitCounts(); st = [rem, bitCount]
RECURSIVE BitCountsRun(_, _, _, _)
BitCountsRun(lo, hi, maxBits, st) ==
    IF lo > hi THEN st
    ELSE IF lo = hi
    THEN LET bits == BitsFor(1, 1, maxBits, st.rem)
         IN  [rem |-> st.rem - Pow2(maxBits - bits),
              bitCount |-> [st.bitCount EXCEPT ![bits] = @ + 1]]
    ELSE LET mid == (lo + hi) \div 2
         IN  BitCountsRun(mid + 1, hi, maxBits,
                          BitCountsRun(lo, mid, maxBits, st))
bitCounts(n, maxBits0) ==
    LET maxBits == IF maxBits0 > n - 1 THEN n - 1 ELSE maxBits0
    IN  BitCountsRun(1, n, maxBits,
                     [rem |-> Pow2(maxBits),
                      bitCount |-> [b \in 1..16 |-> 0]]).bitCount

\* generate(freq, numSymbols, maxBits): the lengths of the codes it sets.
\* The list is sorted by frequency (symbols of equal frequency in symbol
\* order) and assignEncodingAndSize() hands the shortest lengths to the end
\* of the list.
HuffmanGenerate(freq, numSymbols, maxBits) ==
    LET used == {i \in DOMAIN freq : i < numSymbols /\ freq[i] # 0}
        n    == Cardinality(used)
    IN  IF n <= 2 THEN [i \in used |-> 1]
        ELSE
        LET bc      == bitCounts(n, maxBits)
            \* position from the end of the sorted list, 1 = most frequent
            rank(i) == 1 + Cardinality({j \in used :
                            \/ freq[j] > freq[i]
                            \/ (freq[j] = freq[i] /\ j > i)})
            upTo(b) == Sum(bc, 1, b)
        IN  [i \in used |->
                CHOOSE b \in 1..15 :
                    /\ rank(i) <= upTo(b)
                    /\ (b > 1 => rank(i) > upTo(b - 1))]

bitLength(lens, freq, numSymbols) ==
    Sum([i \in 0..(numSymbols - 1) |-> Get(freq, i) * Get(lens, i)],
        0, numSymbols - 1)

\* createFixedLiteralEncoding / createFixedOffsetEncoding: code sizes
FixedLiteralLen(ch) ==
    IF ch < 144 THEN 8 ELSE IF ch < 256 THEN 9 ELSE IF ch < 280 THEN 7 ELSE 8
fixedLiteralEncoding == [ch \in 0..(LITERAL_COUNT - 1) |-> FixedLiteralLen(ch)]
fixedOffsetEncoding  == [ch \in 0..29 |-> 5]

\* ------------------------------------------------------------------------
\* The compressed stream and its decoder
\* ------------------------------------------------------------------------
\* parts of the stream
HeaderPart(final, btype, lens, length) ==
    [k |-> "header", final |-> final, btype |-> btype, lens |-> lens,
     a |-> length, b |-> 0, raw |-> <<>>]
CodePart(sym, bits) ==
    [k |-> "code", final |-> FALSE, btype |-> "", lens |-> NoEntries,
     a |-> sym, b |-> bits, raw |-> <<>>]
MatchPart(length, distance) ==
    [k |-> "match", final |-> FALSE, btype |-> "", lens |-> NoEntries,
     a |-> length, b |-> distance, raw |-> <<>>]
RawPart(bytes) ==
    [k |-> "raw", final |-> FALSE, btype |-> "", lens |-> NoEntries,
     a |-> Len(bytes), b |-> 0, raw |-> bytes]

IsHeaderPart(part) == part.k = "header"

\* the three header bits: BFINAL is the low bit, BTYPE the next two
BlockTypes == <<"stored", "fixed", "dynamic">>
HeaderBits(v, lens, length) ==
    HeaderPart(v % 2 = 1, BlockTypes[(v \div 2) + 1], lens, length)

\* copies length bytes from distance bytes back, byte by byte (the copy may
\* run into the bytes it has just written)
CopyMatch(out, distance, length) ==
    out \o [j \in 1..length |->
              out[Len(out) - distance + 1 + ((j - 1) % distance)]]

\* One step of the decoder at part st.i; st = [i, out, blk, lens, final,
\* done, ok].  The stream ends (done) with the last part of a final block.
InflateStep(parts, st) ==
    LET it == parts[st.i] IN
    IF st.blk = "none"
    THEN IF it.k # "header" THEN [st EXCEPT !.ok = FALSE]
         ELSE IF it.btype = "stored"
         THEN IF st.i + 1 <= Len(parts) /\ parts[st.i + 1].k = "raw"
                 /\ parts[st.i + 1].a = it.a
              THEN [st EXCEPT !.i = st.i + 2,
                              !.out = st.out \o parts[st.i + 1].raw,
                              !.done = it.final]
              ELSE [st EXCEPT !.ok = FALSE]
         ELSE [st EXCEPT !.i = st.i + 1, !.blk = it.btype,
                         !.final = it.final,
                         !.lens = IF it.btype = "fixed"
                                  THEN fixedLiteralEncoding ELSE it.lens]
    ELSE IF it.k = "code"
    THEN IF it.b = 0 \/ Get(st.lens, it.a) # it.b
         THEN [st EXCEPT !.ok = FALSE]
         ELSE IF it.a = END_BLOCK_MARKER
         THEN [st EXCEPT !.i = st.i + 1, !.blk = "none", !.done = st.final]
         ELSE [st EXCEPT !.i = st.i + 1, !.out = Append(st.out, it.a)]
    ELSE IF it.k = "match"
    THEN IF st.blk # "fixed" \/ it.b > Len(st.out)
         THEN [st EXCEPT !.ok = FALSE]
         ELSE [st EXCEPT !.i = st.i + 1,
                         !.out = CopyMatch(st.out, it.b, it.a)]
    ELSE [st EXCEPT !.ok = FALSE]

\* up to 2^k decoder steps; the decoder stops at the end of a final block,
\* at a part it cannot read, and where the stream is cut short
RECURSIVE InflateSteps(_, _, _)
InflateSteps(k, parts, st) ==
    IF ~st.ok \/ st.done THEN st
    ELSE IF st.i > Len(parts) THEN [st EXCEPT !.ok = FALSE]
    ELSE IF k = 0 THEN InflateStep(parts, st)
    ELSE InflateSteps(k - 1, parts, InflateSteps(k - 1, parts, st))

\* inflate(stream): ok iff the stream decodes up to the end of a final block
Inflate(parts) ==
    LET r == InflateSteps(20, parts,
                 [i |-> 1, out |-> <<>>, blk |-> "none", lens |-> NoEntries,
                  final |-> FALSE, done |-> FALSE, ok |-> TRUE])
    IN  [ok |-> r.ok /\ r.done, data |-> r.out]

\* ------------------------------------------------------------------------
\* HuffmanBitWriter
\* ------------------------------------------------------------------------
\* A writer is [out, lastHeader, lastHuffMan, penalty, litEnc]: out is the
\* stream written so far, litEnc the lengths of literalEncoding_.
guessHeaderSizeBits == 70 * 8

NewBitWriter(penalty) ==
    [out |-> <<>>, lastHeader |-> 0, lastHuffMan |-> FALSE,
     penalty |-> penalty, litEnc |-> NoEntries]

BitWriterReset(w) ==
    [w EXCEPT !.out = <<>>, !.lastHeader = 0, !.lastHuffMan = FALSE]

\* writeCode(c): a code of length 0 adds no bits
writeCode(w, sym, lens) ==
    IF Get(lens, sym) = 0 THEN w
    ELSE [w EXCEPT !.out = Append(w.out, CodePart(sym, Get(lens, sym)))]

\* "if (lastHeader_ > 0) { writeCode(EOB); lastHeader_ = 0; }"
CloseOpenBlock(w) ==
    IF w.lastHeader > 0
    THEN [writeCode(w, END_BLOCK_MARKER, w.litEnc) EXCEPT !.lastHeader = 0]
    ELSE w

\* flush(): closes an open block; the padding to a byte carries no part
BitWriterFlush(w) == CloseOpenBlock(w)

writeBytes(w, bytes) == [w EXCEPT !.out = Append(w.out, RawPart(bytes))]

writeFixedHeader(w, isEof) ==
    LET Header(w1) ==
            [w1 EXCEPT !.out = Append(w1.out,
                          HeaderBits(IF isEof THEN 3 ELSE 2, NoEntries, 0))]
    IN  Header(CloseOpenBlock(w))

\* writeBits(0, 7) after a fixed header is the fixed code of symbol 256
writeStoredHeader(w, length, isEof) ==
    LET Header(w1) ==
            IF length = 0 /\ isEof
            THEN BitWriterFlush(writeCode(writeFixedHeader(w1, isEof),
                                          END_BLOCK_MARKER,
                                          fixedLiteralEncoding))
            ELSE [w1 EXCEPT !.out = Append(w1.out,
                                HeaderBits(IF isEof THEN 1 ELSE 0, NoEntries,
                                           length))]
    IN  Header(CloseOpenBlock(w))

\* indexTokens(): literalFreq_ (symbols 0..287) and offsetFreq_
indexTokens(tk, alwaysEOB) ==
    LET lf0 == [s \in DOMAIN tk.litHist
                      \cup {256 + j : j \in DOMAIN tk.extraHist} |->
                   IF s < 256 THEN tk.litHist[s] ELSE tk.extraHist[s - 256]]
    IN  [lit |-> IF tk.n # 0 /\ alwaysEOB
                 THEN Put(lf0, END_BLOCK_MARKER, 1) ELSE lf0,
         off |-> tk.offHist]

extraBitSize(literalFreq, offsetFreq) ==
    Sum([i \in 0..(LITERAL_COUNT - LENGTH_CODES_START - 1) |->
            Get(literalFreq, LENGTH_CODES_START + i)
            * lengthExtraBits[i + 1]],
        0, LITERAL_COUNT - LENGTH_CODES_START - 1)
    + Sum([i \in 0..(OFFSET_CODE_COUNT - 1) |->
              Get(offsetFreq, i) * offsetExtraBits[i + 1]],
          0, OFFSET_CODE_COUNT - 1)

fixedSize(literalFreq, offsetFreq, extraBits) ==
    3 + bitLength(fixedLiteralEncoding, literalFreq, LITERAL_COUNT)
      + bitLength(fixedOffsetEncoding, offsetFreq, OFFSET_CODE_COUNT)
      + extraBits

storable(len)   == len <= MAX_STORE_BLOCK_SIZE
storedSize(len) == IF storable(len) THEN (len + 5) * 8 ELSE 0

\* What writeTokens() writes for one token under the fixed codes.  A token
\* below 256 is a literal; any other is read as a match: the length code
\* and offset code come from the token's bit fields, and the extra bits hold
\* the low bits of the differences to the code's base.
TokenPart(t) ==
    IF t < 256 THEN CodePart(t, fixedLiteralEncoding[t])
    ELSE
    LET length  == (t \div Pow2(LENGTH_SHIFT)) % 256
        offset  == (t % Pow2(LENGTH_SHIFT)) % 65536
        offCode == ((t % Pow2(LENGTH_SHIFT)) \div 65536) % 32
        Coded(lengthCode, comb) ==
            LET extraLen == IF lengthCode >= 8
                            THEN (length - lengthBase[lengthCode + 1])
                                 % Pow2(lengthExtraBits[lengthCode + 1])
                            ELSE 0
                extraOff == IF offCode >= 4
                            THEN ((offset - comb.base) % 65536)
                                 % Pow2(comb.bits)
                            ELSE 0
            IN  MatchPart(3 + lengthBase[lengthCode + 1] + extraLen,
                          1 + offsetBase[offCode + 1] + extraOff)
    IN  Coded(lengthCodes1(length) - 1, offsetCombined(offCode))

writeTokens(w, tk, n) ==
    IF n = 0 THEN w
    ELSE
    LET deferEOB == TokenAt(tk, n - 1) = END_BLOCK_MARKER
        m        == IF deferEOB THEN n - 1 ELSE n
        Finish(w1) ==
            IF deferEOB
            THEN writeCode(w1, END_BLOCK_MARKER, fixedLiteralEncoding)
            ELSE w1
    IN  Finish([w EXCEPT !.out = w.out \o
                   [i \in 1..m |-> TokenPart(TokenAt(tk, i - 1))]])

\* writeBlockDynamic(tokens, eof, input, inputLen, sync)
writeBlockDynamic(w, tk, eof, input) ==
    LET ssize == storedSize(Len(input))
        \* the choice between a stored and a fixed block
        Write(w2, tk1, size) ==
            IF storable(Len(input)) /\ ssize <= size
            THEN [w |-> writeBytes(writeStoredHeader(w2, Len(input), eof),
                                   input),
                  tk |-> tk1]
            ELSE [w |-> writeTokens(writeFixedHeader(w2, eof), tk1, tk1.n),
                  tk |-> tk1]
        \* extraBitSize(), generate(), fixedSize() on the indexed tokens
        Indexed(w1, tk1, fr) ==
            Write([w1 EXCEPT
                     !.litEnc = HuffmanGenerate(fr.lit, LITERAL_COUNT, 15)],
                  tk1,
                  fixedSize(fr.lit, fr.off,
                            IF storable(Len(input))
                            THEN extraBitSize(fr.lit, fr.off) ELSE 0))
        Closed(w1, tk1) == Indexed(w1, tk1, indexTokens(tk1, TRUE))
    IN  Closed(CloseOpenBlock(w), AddEOB(tk))

\* histogram(input, len) on a literalFreq_ that was just cleared
histogram(input) ==
    [b \in {input[i] : i \in 1..Len(input)} |->
        Cardinality({i \in 1..Len(input) : input[i] = b}) % UINT16]

\* the test for incompressible input: the sum over the 256 byte values of
\* (freq - len/256)^2 stays below 2*len (compared here times 256^2)
RECURSIVE SquareSum(_, _, _, _, _)
SquareSum(freq, len, lo, hi, limit) ==
    IF lo = hi
    THEN LET d  == 256 * Get(freq, lo) - len
             ad == IF d < 0 THEN -d ELSE d
         IN  IF ad > 32767 THEN limit ELSE Min(limit, ad * ad)
    ELSE LET mid == (lo + hi) \div 2
         IN  Min(limit, SquareSum(freq, len, lo, mid, limit)
                        + SquareSum(freq, len, mid + 1, hi, limit))
LooksIncompressible(freq, len) ==
    len > 1024
    /\ SquareSum(freq, len, 0, 255, 2 * len * 65536) < 2 * len * 65536

\* generateCodegen(257, 1, ..): how often each code length 0..15 occurs
\* among the 257 literal lengths and the one offset length
codegenFreqOf(litLens) ==
    LET count(b) == Cardinality({i \in DOMAIN litLens : litLens[i] = b})
        lit(b)   == IF b = 0
                    THEN (END_BLOCK_MARKER + 1) - Cardinality(DOMAIN litLens)
                         + count(0)
                    ELSE count(b)
        all      == [b \in 0..18 |->
                        IF b > 15 THEN 0
                        ELSE lit(b) + (IF b = fixedOffsetEncoding[0]
                                       THEN 1 ELSE 0)]
    IN  [b \in {c \in 0..18 : all[c] # 0} |-> all[b]]

RECURSIVE codegens(_, _)
codegens(cgf, n) ==
    IF n > 4 /\ Get(cgf, codegenOrder[n]) = 0 THEN codegens(cgf, n - 1)
    ELSE n

headerSize(cgf, cgLens) ==
    3 + 5 + 5 + 4 + (3 * codegens(cgf, 19)) + bitLength(cgLens, cgf, 19)
    + Get(cgf, 16) * 2 + Get(cgf, 17) * 3 + Get(cgf, 18) * 7

\* "for (i = 0; i < inputLen; i++) writeCode(encoding[input[i]])": one code
\* per byte, nothing for a byte whose code has length 0
HasBits(part) == part.b > 0
WriteLiterals(w, lens, input) ==
    [w EXCEPT !.out = w.out \o
        SelectSeq([i \in 1..Len(input) |->
                      CodePart(input[i], Get(lens, input[i]))], HasBits)]

\* writeBlockHuff(eof, input, inputLen, sync)
writeBlockHuff(w, eof, input, sync) ==
    LET len    == Len(input)
        ssize  == storedSize(len)
        Stored == writeBytes(writeStoredHeader(w, len, eof), input)
        \* the EOB "if (eof || sync)"
        End(w3) ==
            IF eof \/ sync
            THEN [writeCode(w3, END_BLOCK_MARKER, w3.litEnc) EXCEPT
                     !.lastHeader = 0, !.lastHuffMan = FALSE]
            ELSE w3
        Literals(w2) == End(WriteLiterals(w2, w2.litEnc, input))
        \* "if (lastHeader_ == 0)": the new table and its header
        NewTable(w1, tmpLit, cgf) ==
            [w1 EXCEPT
               !.litEnc = tmpLit,
               !.out = Append(w1.out,
                              HeaderBits(IF eof THEN 5 ELSE 4, tmpLit, 0)),
               !.lastHuffMan = TRUE,
               !.lastHeader = headerSize(cgf, HuffmanGenerate(cgf, 19, 7))]
        Header(w1, tmpLit) ==
            Literals(IF w1.lastHeader = 0
                     THEN NewTable(w1, tmpLit, codegenFreqOf(tmpLit))
                     ELSE w1)
        \* "if (lastHeader_ > 0 && estBits < reuseSize)": give up the table
        Sized(literalFreq, tmpLit, estBits) ==
            IF storable(len) /\ ssize <= estBits THEN Stored
            ELSE Header(IF w.lastHeader > 0
                           /\ estBits < bitLength(w.litEnc, literalFreq,
                                                  END_BLOCK_MARKER + 1)
                        THEN CloseOpenBlock(w) ELSE w,
                        tmpLit)
        Estimated(literalFreq, tmpLit, est0) ==
            Sized(literalFreq, tmpLit, est0 + (est0 \div Pow2(w.penalty)))
        Generated(literalFreq, tmpLit) ==
            Estimated(literalFreq, tmpLit,
                bitLength(tmpLit, literalFreq, END_BLOCK_MARKER + 1)
                + w.lastHeader
                + (IF w.lastHeader = 0 THEN guessHeaderSizeBits ELSE 0))
        Filled(literalFreq) ==
            Generated(literalFreq,
                HuffmanGenerate(literalFreq, END_BLOCK_MARKER + 1, 15))
        Counted(freq0) ==
            IF storable(len) /\ LooksIncompressible(freq0, len) THEN Stored
            ELSE Filled(Put(freq0, END_BLOCK_MARKER, 1))
    IN  Counted(histogram(input))

\* ------------------------------------------------------------------------
\* FlateWriter / FastDeflate
\* ------------------------------------------------------------------------
UseL1(level) == level <= 3
Penalty(level) == IF level <= 3 THEN 8 ELSE IF level >= 7 THEN 6 ELSE 7

\* the three-way choice made after encode() in storeFast(), close() and
\* FastDeflate::compress(); o = [w, tk]
WriteEncoded(w, tk, input, eof, sync) ==
    IF tk.n = 0
    THEN [w |-> writeBytes(writeStoredHeader(w, Len(input), eof), input),
          tk |-> tk]
    ELSE IF tk.n > Len(input) - (Len(input) \div 16)
    THEN [w |-> writeBlockHuff(w, eof, input, sync), tk |-> tk]
    ELSE writeBlockDynamic(w, tk, eof, input)

\* A FlateWriter is [window, en, tk, w].
storeFast(fw) ==
    IF fw.window = <<>> THEN fw
    ELSE IF Len(fw.window) < 128
    THEN [window |-> <<>>, en |-> FastEncL1Reset(fw.en),
          tk |-> TokensReset(fw.tk),
          w |-> IF Len(fw.window) <= 32
                THEN writeBytes(writeStoredHeader(fw.w, Len(fw.window),
                                                  FALSE), fw.window)
                ELSE writeBlockHuff(fw.w, FALSE, fw.window, FALSE)]
    ELSE LET Written(en, o) ==
                 [window |-> <<>>, en |-> en, tk |-> TokensReset(o.tk),
                  w |-> o.w]
             Encoded(e) ==
                 Written(e.en,
                         WriteEncoded(fw.w, e.tk, fw.window, FALSE, FALSE))
         IN  Encoded(FastEncL1Encode(fw.en, fw.tk, fw.window))

RECURSIVE FlateWriterWrite(_, _)
FlateWriterWrite(fw, data) ==
    IF data = <<>> THEN fw
    ELSE LET Fill(fw1) ==
                 LET n == Min(Len(data), WindowSize - Len(fw1.window))
                 IN  FlateWriterWrite(
                         [fw1 EXCEPT
                            !.window = fw1.window \o SubSeq(data, 1, n)],
                         SubSeq(data, n + 1, Len(data)))
         IN  Fill(IF Len(fw.window) = WindowSize THEN storeFast(fw) ELSE fw)

FlateWriterClose(fw) ==
    IF Len(fw.window) > 0
    THEN LET Written(en, o) ==
                 [fw EXCEPT !.en = en, !.tk = o.tk,
                            !.w = BitWriterFlush(o.w)]
             Encoded(e) ==
                 Written(e.en,
                         WriteEncoded(fw.w, e.tk, fw.window, TRUE, TRUE))
         IN  Encoded(FastEncL1Encode(fw.en, fw.tk, fw.window))
    ELSE [fw EXCEPT !.w = BitWriterFlush(writeStoredHeader(fw.w, 0, TRUE))]

\* the block loop of FastDeflate::compress()
RECURSIVE CompressBlocks(_, _)
CompressBlocks(fd, input) ==
    IF input = <<>> THEN fd
    ELSE LET blockSize == Min(Len(input), WindowSize)
             block     == SubSeq(input, 1, blockSize)
             isLast    == blockSize >= Len(input)
             Written(en, o) ==
                 CompressBlocks([fd EXCEPT !.en = en, !.tk = o.tk,
                                           !.w = o.w],
                                SubSeq(input, blockSize + 1, Len(input)))
             Encoded(e) ==
                 Written(e.en,
                         WriteEncoded(fd.w, e.tk, block, isLast, isLast))
         IN  Encoded(FastEncL1Encode(fd.en, TokensReset(fd.tk), block))

FastDeflateCompress(fd, input) ==
    LET fd0 == [fd EXCEPT !.en = FastEncL1Reset(fd.en),
                          !.w = BitWriterReset(fd.w),
                          !.tk = TokensReset(fd.tk)]
        Flushed(fd1) == [fd1 EXCEPT !.w = BitWriterFlush(fd1.w)]
    IN  IF input = <<>>
        THEN [fd0 EXCEPT
                !.w = BitWriterFlush(writeStoredHeader(fd0.w, 0, TRUE))]
        ELSE Flushed(CompressBlocks(fd0, input))

\* the state every other specification keeps: no FlateWriter in use
InitFlateIdle ==
    /\ flInput = <<>>
    /\ flLevel = 1
    /\ flFed = 0
    /\ flState = "idle"
    /\ flApi = "none"
    /\ window = <<>>
    /\ encoder = NewEncoder
    /\ tokens = [n |-> 0, arr |-> <<>>, litHist |-> NoEntries,
                 extraHist |-> NoEntries, offHist |-> NoEntries, fill |-> 0]
    /\ writer = NewBitWriter(Penalty(1))


(***************************************************************************)
(* Archiver: what compress() and populateHeader() leave in a task, and     *)
(* archiveFile(), which hands the task to the ZipWriter.                   *)
(***************************************************************************)
\* The files the walker finds: path 1 is an empty regular file, path k > 1 a
\* regular file of 100 * (k - 1) bytes.
FileSize(k) == 100 * (k - 1)

\* FlateWriter::close() on a FlateWriter that was given no byte: what
\* Archiver::compress (lines 197-235) runs for an empty file, whose read
\* loop reads nothing.
EmptyFileStream ==
    FlateWriterClose([window |-> <<>>, en |-> NewEncoder,
                      tk |-> [n |-> 0, arr |-> <<>>, litHist |-> NoEntries,
                              extraHist |-> NoEntries, offHist |-> NoEntries,
                              fill |-> 0],
                      w |-> NewBitWriter(Penalty(1))]).w.out

\* Bits of a part of a fixed block: the three header bits (writeBits(v, 3)
\* in writeFixedHeader) or the bits of a code.
HEADER_BITS == 3
FixedPartBits(part) == IF part.k = "header" THEN HEADER_BITS ELSE part.b

\* Variant: flush() drops the bits of an unfinished byte.
FixedStreamBytesFloor(parts) ==
    Sum([i \in 1..Len(parts) |-> FixedPartBits(parts[i])], 1, Len(parts))
        \div 8
\* Bytes HuffmanBitWriter::flush (lines 613-631) hands on for a stream of
\* fixed-block headers and codes: its bits, the last byte padded.
FixedStreamBytes(parts) ==
    (Sum([i \in 1..Len(parts) |-> FixedPartBits(parts[i])], 1, Len(parts))
        + 7) \div 8

\* task->written() and the crc of Archiver::compress when compressFile
\* returns (lines 182-238).  For the empty file they are computed as the
\* code computes them: crc is the initial 0, written() the bytes close()
\* handed to task->write.  For the other files the numbers stand for the
\* size and the CRC-32 of whatever the file holds.
CompressedSize(k) ==
    IF FileSize(k) = 0 THEN FixedStreamBytes(EmptyFileStream) ELSE 10 * k
ContentCrc(k) == IF FileSize(k) = 0 THEN 0 ELSE 1000 + k

\* The header populateHeader (lines 240-295) fills in for the k-th path: a
\* regular file whose name, sizes and extra field depend on the path.
EXTENDED_TIMESTAMP_LEN == 9
TaskHeader(k) ==
    [id |-> k, nameLen |-> k, endsSlash |-> FALSE,
     extraLen |-> EXTENDED_TIMESTAMP_LEN,
     crc |-> ContentCrc(k),
     csize |-> U64Of(CompressedSize(k)), usize |-> U64Of(FileSize(k)),
     dd |-> TRUE]

\* The write faults explored for createRaw inside the archiver; SpecZip
\* explores all of ZipFaults.
ArchiveFaults == {"none", "data"}

\* Archiver::archiveFile (lines 297-319).
ArchiveFile(w) ==
    /\ w = WriterWorker
    /\ pc[w] = "exec"
    /\ finished' = [finished EXCEPT !["writer"] = @ \cup {held[w]}]
    /\ held' = [held EXCEPT ![w] = NoTask]
    \* lines 299 and 316: the task is released on both paths
    /\ released' = [released EXCEPT ![held[w]] = @ + 1]
    /\ IF arCancelled
       THEN /\ perr' = [perr EXCEPT ![w] = "CANCELLED"]
            /\ pc' = [pc EXCEPT ![w] = "seterr"]
            /\ UNCHANGED <<processedFiles, zipVars>>
       ELSE \E f \in ArchiveFaults :
              LET Write(h, e) ==
                      /\ ZipCreateRaw(h, h.csize, f, "createRaw")
                      /\ processedFiles' = processedFiles + 1
                      /\ perr' = [perr EXCEPT ![w] = e]
                      /\ pc' = [pc EXCEPT ![w] =
                                   IF IsErr(e) THEN "seterr" ELSE "lock"]
                  Create(h) ==
                      Write(h, CreateRawResult(h, h.csize, f).err)
              IN  Create(TaskHeader(held[w]))
    /\ UNCHANGED <<flVars, tkVars, exVars, mtVars, shVars, poolVars, accepted,
                   executed, discarded, errLog, closeResult, cancelCalled,
                   queuedAtClose, harnVars, arCancelled, totalFiles,
                   archiveResult, cancelMidway, omitted, arLevel, arPaths,
                   destroyed, usedLevel, handed>>


(***************************************************************************)
(* FileTask  (src/src/source/common/dbusadpator.cpp:218-419)               *)
(*                                                                         *)
(* The compressed bytes of one member: buffer_, of DEFAULT_BUFFER_SIZE     *)
(* bytes, and behind it the fstream overflow_ on a temporary file that     *)
(* write() creates when buffer_ is full.  A task t is [buffer, written,    *)
(* overflow, exists, spill].  The sizes are scaled down, and the i-th byte *)
(* passed to write() since reset() is the number i, so that a lost, a      *)
(* repeated or a misplaced byte shows in what is replayed.                 *)
(***************************************************************************)
DEFAULT_BUFFER_SIZE == 4   \* 2 MiB in the source
READ_BUFFER_SIZE    == 2   \* 32 KiB in the source
MaxWriteSize        == 3   \* largest size passed to one write()
MaxOffered          == 8   \* most bytes passed to write() after one reset()
MaxReplays          == 2   \* most readCompressedData() calls after one reset()

\* the bytes lo+1 .. lo+n
Bytes(lo, n) == [i \in 1..n |-> lo + i]

\* FileTask() and the member initialisers
NewTask ==
    [buffer |-> <<>>, written |-> 0, overflow |-> "null", exists |-> FALSE,
     spill |-> <<>>]

\* FileTask::write(data, size).  opens: whether the fstream on the new
\* temporary file opens.  A write on an fstream that is not open, or whose
\* failbit is set, stores nothing and is not checked.
TaskWriteResult(t, data, opens) ==
    LET size      == Len(data)
        available == DEFAULT_BUFFER_SIZE - Len(t.buffer)
        toWrite   == IF available > 0 THEN Min(available, size) ELSE 0
        t1        == [t EXCEPT !.buffer = @ \o SubSeq(data, 1, toWrite)]
        Spilled(stream, created) ==
            [t1 EXCEPT !.overflow = stream,
                       !.exists = created \/ @,
                       !.spill = IF stream = "good"
                                 THEN (IF created THEN <<>> ELSE @)
                                      \o SubSeq(data, toWrite + 1, size)
                                 ELSE @,
                       !.written = @ + size]
    IN  IF size - toWrite > 0
        THEN IF t.overflow = "null"
             THEN IF opens
                  THEN [t |-> Spilled("good", TRUE), ret |-> size]
                  ELSE [t |-> [t1 EXCEPT !.overflow = "failed"],
                        ret |-> toWrite]
             ELSE [t |-> Spilled(t.overflow, FALSE), ret |-> size]
        ELSE [t |-> [t1 EXCEPT !.written = @ + toWrite], ret |-> toWrite]

\* the start of FileTask::reset (lines 272-287): the temporary file is
\* closed and removed, both tiers are emptied
TaskCleared(t) ==
    [t EXCEPT !.overflow = "null", !.exists = FALSE, !.spill = <<>>,
              !.buffer = <<>>, !.written = 0]

\* s cut into pieces of n elements, the last one shorter
Chunks(s, n) ==
    [i \in 1..((Len(s) + n - 1) \div n) |->
        SubSeq(s, (i - 1) * n + 1, Min(i * n, Len(s)))]

\* the chunks FileTask::readCompressedData passes to its callback: buffer_
\* if it holds a byte, then reads of READ_BUFFER_SIZE bytes from offset 0 of
\* the temporary file while the stream is good.  seekg does not move a
\* stream whose failbit is set, and the loop then reads nothing.
TaskReplay(t) ==
    (IF Len(t.buffer) > 0 THEN <<t.buffer>> ELSE <<>>)
    \o (IF t.overflow = "good" THEN Chunks(t.spill, READ_BUFFER_SIZE)
        ELSE <<>>)

\* the stream after readCompressedData: the read that meets the end of
\* the file sets eofbit and failbit
StreamAfterReplay(stream) == IF stream = "good" THEN "failed" ELSE stream

\* all the bytes of a sequence of chunks, in order
Concat(chunks) ==
    LET total == Sum([i \in 1..Len(chunks) |-> Len(chunks[i])], 1,
                     Len(chunks))
        Before(i) == Sum([j \in 1..Len(chunks) |-> Len(chunks[j])], 1, i - 1)
        ChunkOf(k) == CHOOSE i \in 1..Len(chunks) :
                          Before(i) < k /\ k <= Before(i) + Len(chunks[i])
    IN  [k \in 1..total |-> chunks[ChunkOf(k)][k - Before(ChunkOf(k))]]

TaskObject ==
    [buffer |-> tkBuffer, written |-> tkWritten, overflow |-> tkOverflow,
     exists |-> tkSpillExists, spill |-> tkSpill]

TaskInstall(t) ==
    /\ tkBuffer' = t.buffer
    /\ tkWritten' = t.written
    /\ tkOverflow' = t.overflow
    /\ tkSpillExists' = t.exists
    /\ tkSpill' = t.spill

\* FileTask::write(data, size) with the next size bytes of the caller
TaskWrite ==
    \E size \in 0..MaxWriteSize, opens \in BOOLEAN :
        /\ tkOp # "idle"
        /\ tkWhere = "caller"
        /\ tkOffered + size <= MaxOffered
        /\ LET Done(r) ==
                   /\ TaskInstall(r.t)
                   /\ tkAccepted' = tkAccepted
                                    \o Bytes(tkOffered, r.ret)
                   /\ tkRet' = r.ret
           IN  Done(TaskWriteResult(TaskObject, Bytes(tkOffered, size),
                                    opens))
        /\ tkOffered' = tkOffered + size
        /\ tkOp' = "write"
        /\ UNCHANGED <<tkReplay, tkReplays, tkWhere, tkPoolOthers>>

\* FileTask::readCompressedData(callback)
TaskReadCompressedData ==
    /\ tkOp # "idle"
    /\ tkWhere = "caller"
    /\ tkReplays < MaxReplays
    /\ tkReplay' = TaskReplay(TaskObject)
    /\ tkOverflow' = StreamAfterReplay(tkOverflow)
    /\ tkReplays' = tkReplays + 1
    /\ tkOp' = "read"
    /\ UNCHANGED <<tkBuffer, tkWritten, tkSpillExists, tkSpill, tkOffered,
                   tkAccepted, tkRet, tkWhere, tkPoolOthers>>

\* FileTask::reset(path, relativeTo), as far as the two tiers go
TaskReset ==
    /\ tkOp \notin {"idle", "reset"}
    /\ tkWhere = "caller"
    /\ TaskInstall(TaskCleared(TaskObject))
    /\ tkOffered' = 0
    /\ tkAccepted' = <<>>
    /\ tkReplays' = 0
    /\ tkOp' = "reset"
    /\ UNCHANGED <<tkReplay, tkRet, tkWhere, tkPoolOthers>>

\* FileTask::~FileTask: the stream is closed and the temporary file removed
TaskDestroyed(t) == [t EXCEPT !.overflow = "null", !.exists = FALSE,
                              !.spill = <<>>]

\* FileTaskPool::release(task): the task is pushed on pool_ as it is while
\* pool_ holds fewer than POOL_LIMIT tasks, and destroyed otherwise
POOL_LIMIT == 2   \* 32 in the source
PoolSize == tkPoolOthers + (IF tkWhere = "pool" THEN 1 ELSE 0)
TaskRelease ==
    /\ tkOp # "idle"
    /\ tkWhere = "caller"
    /\ IF PoolSize < POOL_LIMIT
       THEN /\ tkWhere' = "pool"
            /\ UNCHANGED <<tkBuffer, tkWritten, tkOverflow, tkSpillExists,
                           tkSpill>>
       ELSE /\ tkWhere' = "gone"
            /\ TaskInstall(TaskDestroyed(TaskObject))
    /\ tkOp' = "release"
    /\ UNCHANGED <<tkPoolOthers, tkOffered, tkAccepted, tkReplay, tkReplays,
                   tkRet>>

\* FileTaskPool::acquire(): a task of pool_ is handed out as it was
\* released, or a new FileTask is made when pool_ is empty
TaskAcquire ==
    /\ tkOp # "idle"
    /\ \/ /\ tkWhere = "pool"
          /\ tkWhere' = "caller"
          /\ UNCHANGED <<tkBuffer, tkWritten, tkOverflow, tkSpillExists,
                         tkSpill, tkOffered, tkAccepted, tkReplays>>
       \/ /\ tkWhere = "gone"
          /\ PoolSize = 0
          /\ tkWhere' = "caller"
          /\ TaskInstall(NewTask)
          /\ tkOffered' = 0
          /\ tkAccepted' = <<>>
          /\ tkReplays' = 0
    /\ tkOp' = "acquire"
    /\ UNCHANGED <<tkPoolOthers, tkReplay, tkRet>>

\* release() and acquire() of the FileTasks of other members
OtherRelease ==
    /\ tkOp # "idle"
    /\ PoolSize < POOL_LIMIT
    /\ tkPoolOthers' = tkPoolOthers + 1
    /\ UNCHANGED <<tkBuffer, tkWritten, tkOverflow, tkSpillExists, tkSpill,
                   tkWhere, tkOffered, tkAccepted, tkReplay, tkReplays, tkOp,
                   tkRet>>

OtherAcquire ==
    /\ tkOp # "idle"
    /\ tkPoolOthers > 0
    /\ tkPoolOthers' = tkPoolOthers - 1
    /\ UNCHANGED <<tkBuffer, tkWritten, tkOverflow, tkSpillExists, tkSpill,
                   tkWhere, tkOffered, tkAccepted, tkReplay, tkReplays, tkOp,
                   tkRet>>

TaskFresh ==
    /\ tkBuffer = NewTask.buffer
    /\ tkWritten = NewTask.written
    /\ tkOverflow = NewTask.overflow
    /\ tkSpillExists = NewTask.exists
    /\ tkSpill = NewTask.spill
    /\ tkWhere = "caller"
    /\ tkPoolOthers = 0
    /\ tkOffered = 0
    /\ tkAccepted = <<>>
    /\ tkReplay = <<>>
    /\ tkReplays = 0
    /\ tkRet = 0

\* the state every other specification keeps: no FileTask in use
InitTaskIdle == TaskFresh /\ tkOp = "idle"

(***************************************************************************)
(* Extractor  (src/unnamed/part_001) and ZipReader::extractTo              *)
(* (zip_reader.cpp:287-326).                                               *)
(*                                                                         *)
(* An entry name is a sequence of path components and "/" separators, as   *)
(* stored in the archive.  A path is the sequence of its components from   *)
(* the root.  The file system fs maps every existing path (without "..")   *)
(* to [kind, data, mode, time]; it has no symbolic links.                  *)
(***************************************************************************)
SLASH  == "/"
DOTDOT == ".."

\* absoluteOutputDir_
OutputDir == <<"out">>

\* permission bits; NO_MODE is the value 0 that zipAttrToMode gives for an
\* entry without Unix attributes
NO_MODE   == "0"
MODE_0600 == "0600"
MODE_0644 == "0644"
MODE_0755 == "0755"

\* modification times: of what was there before, of the entries, of now
TIME_OLD   == "old"
TIME_ENTRY == "entry"
TIME_NOW   == "now"

\* utils::fromZipPath(name) and the fs::path built from it: the components
\* between the separators, absolute when the name starts with a separator
fromZipPath(name) ==
    [abs   |-> name # <<>> /\ Head(name) = SLASH,
     comps |-> SelectSeq(name, LAMBDA c : c # SLASH)]

\* fs::path operator/ : an absolute right-hand side replaces the left one
PathAppend(base, p) == IF p.abs THEN p.comps ELSE base \o p.comps

\* Extractor::outputPath(name)
outputPath(name) == PathAppend(OutputDir, fromZipPath(name))

\* ZipFileHeader::isDirectory(): the name ends with a separator
IsDirectoryName(name) == name # <<>> /\ name[Len(name)] = SLASH

\* the path the system resolves p to: ".." steps to the parent directory,
\* and stays at the root there
RECURSIVE Resolve(_, _)
Resolve(done, rest) ==
    IF rest = <<>> THEN done
    ELSE IF Head(rest) = DOTDOT
         THEN Resolve(IF done = <<>> THEN <<>>
                      ELSE SubSeq(done, 1, Len(done) - 1), Tail(rest))
         ELSE Resolve(Append(done, Head(rest)), Tail(rest))
Normal(p) == Resolve(<<>>, p)

\* path::parent_path()
ParentPath(p) == IF p = <<>> THEN p ELSE SubSeq(p, 1, Len(p) - 1)

\* fs::exists, fs::is_directory
Exists(f, p) == Normal(p) \in DOMAIN f
IsDir(f, p) == Exists(f, p) /\ f[Normal(p)].kind = "dir"

NewDir == [kind |-> "dir", data |-> 0, mode |-> MODE_0755, time |-> TIME_NOW]

\* fs::create_directories(p, ec): the missing directories on the way to p
\* are made, up to a component that is a file
CreateDirectories(f, p) ==
    LET q == Normal(p)
        Prefix(k) == SubSeq(q, 1, k)
        Blocked(k) == \E j \in 1..k : Prefix(j) \in DOMAIN f
                                       /\ f[Prefix(j)].kind # "dir"
        made == {Prefix(k) : k \in {j \in 1..Len(q) :
                                     ~Blocked(j) /\ Prefix(j) \notin DOMAIN f}}
    IN  [fs |-> [r \in DOMAIN f \cup made |->
                    IF r \in DOMAIN f THEN f[r] ELSE NewDir],
         ec |-> Blocked(Len(q))]

\* fs::remove(p, ec) of a file
Removed(f, p) == [r \in DOMAIN f \ {Normal(p)} |-> f[r]]

\* chmod(p, mode), which fails on a path that does not exist
Chmod(f, p, mode) ==
    IF Exists(f, p) THEN [f EXCEPT ![Normal(p)].mode = mode] ELSE f

\* ZipReader::extractTo(entry, outputPath).  readOk: whether
\* readDecompressed succeeds.
extractTo(f, entry, p, readOk) ==
    IF IsDirectoryName(entry.name)
    THEN LET c == CreateDirectories(f, p)
         IN  [fs |-> c.fs,
              err |-> IF c.ec THEN "FILE_WRITE_ERROR" ELSE OK]
    ELSE LET Write(g) ==
                 IF ~readOk THEN [fs |-> g, err |-> "DECOMPRESSION_ERROR"]
                 ELSE IF IsDir(g, p) \/ ~IsDir(g, ParentPath(p))
                 THEN [fs |-> g, err |-> "FILE_WRITE_ERROR"]
                 ELSE [fs |-> [r \in DOMAIN g \cup {Normal(p)} |->
                                 IF r = Normal(p)
                                 THEN [kind |-> "file",
                                       data |-> entry.data,
                                       mode |-> IF entry.mode # NO_MODE
                                                THEN entry.mode
                                                ELSE IF r \in DOMAIN g
                                                THEN g[r].mode
                                                ELSE MODE_0644,
                                       time |-> entry.time]
                                 ELSE g[r]],
                       err |-> OK]
         IN  Write(CreateDirectories(f, ParentPath(p)).fs)

\* Extractor::writeFile(path, entry)
writeFile(f, entry, p, overwrite, readOk) ==
    IF Exists(f, p) /\ ~overwrite
    THEN [fs |-> f, err |-> OK]
    ELSE extractTo(f, entry, p, readOk)

\* Extractor::writeDirectory(path, entry)
writeDirectory(f, p, overwrite) ==
    IF Exists(f, p) /\ ~IsDir(f, p) /\ ~overwrite
    THEN [fs |-> f, err |-> OK]
    ELSE LET c == CreateDirectories(
                      IF Exists(f, p) /\ ~IsDir(f, p) THEN Removed(f, p)
                      ELSE f, p)
         IN  [fs |-> c.fs,
              err |-> IF c.ec THEN "FILE_WRITE_ERROR" ELSE OK]

\* Extractor::setPermissions(path, entry)
setPermissions(f, entry, p, preserve) ==
    IF preserve /\ entry.mode # NO_MODE THEN Chmod(f, p, entry.mode) ELSE f

\* Extractor::extractFile(task) when cancelled_ is not set
extractFile(f, entry, overwrite, preserve, readOk) ==
    LET p == outputPath(entry.name)
        Finish(r) ==
            [fs  |-> IF r.err = OK
                     THEN setPermissions(r.fs, entry, p, preserve)
                     ELSE r.fs,
             err |-> r.err]
        Body(g) ==
            IF IsDirectoryName(entry.name)
            THEN Finish(writeDirectory(g, p, overwrite))
            ELSE Finish(writeFile(g, entry, p, overwrite, readOk))
    IN  Body(CreateDirectories(f, ParentPath(p)).fs)

\* the entries of the archive being extracted: plain names, a name in a
\* directory, directory names, a name that climbs with ".." and a name
\* that starts at the root
MaxExtracts == 2   \* extractFile calls in one run
EntryNames ==
    {<<"a">>, <<"d", SLASH, "a">>, <<"d", SLASH>>, <<"a", SLASH>>,
     <<DOTDOT, SLASH, "b">>, <<SLASH, "b">>}
EntryModes == {NO_MODE, MODE_0755}
Entries ==
    [name : EntryNames, mode : EntryModes, data : {5}, time : {TIME_ENTRY}]
NoEntry == [name |-> <<>>, mode |-> NO_MODE, data |-> 0, time |-> TIME_OLD]

\* what may be on the disk before: the root and the output directory, and
\* any of a file or a directory out/a, a file out/d and a file /b
OldFile == [kind |-> "file", data |-> 7, mode |-> MODE_0600,
            time |-> TIME_OLD]
OldDir  == [kind |-> "dir", data |-> 0, mode |-> MODE_0755,
            time |-> TIME_OLD]
OldNodes ==
    {[path |-> <<"out", "a">>, node |-> OldFile],
     [path |-> <<"out", "a">>, node |-> OldDir],
     [path |-> <<"out", "d">>, node |-> OldFile],
     [path |-> <<"b">>, node |-> OldFile]}
FsOf(S) ==
    [p \in {<<>>, OutputDir} \cup {x.path : x \in S} |->
        IF p \in {<<>>, OutputDir} THEN OldDir
        ELSE (CHOOSE x \in S : x.path = p).node]
InitialDisks ==
    {FsOf(S) : S \in {T \in SUBSET OldNodes :
                        \A x, y \in T : x.path = y.path => x = y}}

\* one extractFile(task) call of a worker of fileWorkerPool_
ExtractFile ==
    \E entry \in Entries, readOk \in BOOLEAN :
        /\ exOp # "idle"
        /\ exCalls < MaxExtracts
        /\ exFsBefore' = exFs
        /\ IF exCancelled
           THEN /\ exFs' = exFs
                /\ exRet' = "CANCELLED"
           ELSE LET Done(r) == exFs' = r.fs /\ exRet' = r.err
                IN  Done(extractFile(exFs, entry, exOverwrite, exPreserve,
                                     readOk))
        /\ exEntry' = entry
        /\ exCalls' = exCalls + 1
        /\ exOp' = "extractFile"
        /\ UNCHANGED <<exOverwrite, exPreserve, exCancelled>>

\* Extractor::cancel(), as far as extractFile sees it
ExtractorCancel ==
    /\ exOp # "idle"
    /\ ~exCancelled
    /\ exCancelled' = TRUE
    /\ exOp' = "cancel"
    /\ UNCHANGED <<exFs, exFsBefore, exOverwrite, exPreserve, exEntry,
                   exRet, exCalls>>

\* the state every other specification keeps: no Extractor in use
InitExtractIdle ==
    /\ exFs = FsOf({})
    /\ exFsBefore = FsOf({})
    /\ exOverwrite = TRUE
    /\ exPreserve = TRUE
    /\ exCancelled = FALSE
    /\ exEntry = NoEntry
    /\ exRet = OK
    /\ exCalls = 0
    /\ exOp = "idle"

(***************************************************************************)
(* ZipWriter shared by threads  (src/src/pzip/src/zip_writer.cpp)          *)
(*                                                                         *)
(* createRaw() and close() statement by statement, for callers that run    *)
(* at the same time: the workers of a pool whose executor calls            *)
(* createRaw(), as archiveFile does, and the thread that closes the pool   *)
(* and then the ZipWriter, as archive() and pzip::compress do.  The file   *)
(* is the sequence of the parts written, each <<member, part>>, and        *)
(* offsets count parts.                                                    *)
(***************************************************************************)
NoThread == <<"none", 0>>

InitSharedIdle ==
    /\ writeMutex = NoThread
    /\ shOpen = TRUE
    /\ shFile = <<>>
    /\ shOffset = 0
    /\ shDir = <<>>
    /\ shEntry = [t \in Threads |-> 0]

\* header.flags & ZIP_FLAG_DATA_DESCRIPTOR (line 280), an input: the members
\* with an odd id carry the flag
HasDescriptor(id) == id % 2 = 1

\* Variant: createRaw() that does not wait for writeMutex_.
LockIgnored(holder) == TRUE
\* std::lock_guard<std::mutex> lock(writeMutex_) can be taken (line 254).
LockFree(holder) == holder = NoThread

\* createRaw() returns err to the executor, which returns it to
\* workerThread (worker_pool.h:212); lock_guard releases writeMutex_.
RawReturn(w, err) ==
    /\ writeMutex' = IF writeMutex = w THEN NoThread ELSE writeMutex
    /\ perr' = [perr EXCEPT ![w] = err]
    /\ pc' = [pc EXCEPT ![w] = IF IsErr(err) THEN "seterr" ELSE "lock"]
    /\ finished' = [finished EXCEPT ![PoolOf(w)] = @ \cup {held[w]}]
    /\ held' = [held EXCEPT ![w] = NoTask]

\* createRaw, lines 254-263: take writeMutex_, fail if the file is not
\* open, note currentOffset_ in entry.localHeaderOffset.
RawBegin(w) ==
    /\ pc[w] = "exec"
    /\ LockFree(writeMutex)
    /\ IF ~shOpen
       THEN /\ RawReturn(w, "FILE_OPEN_ERROR")
            /\ UNCHANGED shEntry
       ELSE /\ writeMutex' = w
            /\ shEntry' = [shEntry EXCEPT ![w] = shOffset]
            /\ pc' = [pc EXCEPT ![w] = "raw_lfh"]
            /\ UNCHANGED <<perr, finished, held>>
    /\ UNCHANGED <<poolVars, accepted, executed, discarded, errLog,
                   closeResult, cancelCalled, queuedAtClose, harnVars,
                   arVars, zipVars, flVars, tkVars, exVars, alVars, mtVars,
                   shOpen, shFile, shOffset, shDir>>

\* createRaw, lines 266-267: writeLocalFileHeader (lines 116-195) writes the
\* header and, when the stream is good, advances currentOffset_.
RawHeader(w) ==
    /\ pc[w] = "raw_lfh"
    /\ \E good \in BOOLEAN :
         IF good
         THEN /\ shFile' = Append(shFile, <<held[w], "lfh">>)
              /\ shOffset' = shOffset + 1
              /\ pc' = [pc EXCEPT ![w] = "raw_data"]
              /\ UNCHANGED <<writeMutex, perr, finished, held>>
         ELSE /\ RawReturn(w, "FILE_WRITE_ERROR")
              /\ UNCHANGED <<shFile, shOffset>>
    /\ UNCHANGED <<poolVars, accepted, executed, discarded, errLog,
                   closeResult, cancelCalled, queuedAtClose, harnVars,
                   arVars, zipVars, flVars, tkVars, exVars, alVars, mtVars,
                   shOpen, shDir, shEntry>>

\* createRaw, lines 270-277: the data provider writes the compressed data
\* and advances currentOffset_; then the stream is tested.
RawData(w) ==
    /\ pc[w] = "raw_data"
    /\ shFile' = Append(shFile, <<held[w], "data">>)
    /\ shOffset' = shOffset + 1
    /\ \E good \in BOOLEAN :
         IF good
         THEN /\ pc' = [pc EXCEPT ![w] = IF HasDescriptor(held[w])
                                         THEN "raw_dd" ELSE "raw_cd"]
              /\ UNCHANGED <<writeMutex, perr, finished, held>>
         ELSE RawReturn(w, "FILE_WRITE_ERROR")
    /\ UNCHANGED <<poolVars, accepted, executed, discarded, errLog,
                   closeResult, cancelCalled, queuedAtClose, harnVars,
                   arVars, zipVars, flVars, tkVars, exVars, alVars, mtVars,
                   shOpen, shDir, shEntry>>

\* createRaw, lines 280-283: writeDataDescriptor (lines 197-250).
RawDescriptor(w) ==
    /\ pc[w] = "raw_dd"
    /\ \E good \in BOOLEAN :
         IF good
         THEN /\ shFile' = Append(shFile, <<held[w], "dd">>)
              /\ shOffset' = shOffset + 1
              /\ pc' = [pc EXCEPT ![w] = "raw_cd"]
              /\ UNCHANGED <<writeMutex, perr, finished, held>>
         ELSE /\ RawReturn(w, "FILE_WRITE_ERROR")
              /\ UNCHANGED <<shFile, shOffset>>
    /\ UNCHANGED <<poolVars, accepted, executed, discarded, errLog,
                   closeResult, cancelCalled, queuedAtClose, harnVars,
                   arVars, zipVars, flVars, tkVars, exVars, alVars, mtVars,
                   shOpen, shDir, shEntry>>

\* createRaw, lines 285-286: centralDir_.push_back(entry); return Error().
RawRecord(w) ==
    /\ pc[w] = "raw_cd"
    /\ shDir' = Append(shDir, [id |-> held[w], offset |-> shEntry[w]])
    /\ RawReturn(w, OK)
    /\ UNCHANGED <<poolVars, accepted, executed, discarded, errLog,
                   closeResult, cancelCalled, queuedAtClose, harnVars,
                   arVars, zipVars, flVars, tkVars, exVars, alVars, mtVars,
                   shOpen, shFile, shOffset, shEntry>>

\* ZipWriter::close (lines 611-632) called by t once close() of the pool has
\* returned (part_000:112-115, part_006:40-42); it takes no lock.  Lines
\* 612-617: nothing to do for a closed file, else note currentOffset_.
SharedCloseBegin(t) ==
    /\ pc[t] = "closed"
    /\ pc' = [pc EXCEPT ![t] = IF shOpen THEN "z_cd" ELSE "z_done"]
    /\ shEntry' = [shEntry EXCEPT ![t] = shOffset]
    /\ UNCHANGED <<poolVars, held, perr, histVars, harnVars, arVars, zipVars,
                   flVars, tkVars, exVars, alVars, mtVars, writeMutex,
                   shOpen, shFile, shOffset, shDir>>

\* close, lines 620-621: writeCentralDirectory writes one record per entry
\* of centralDir_ and advances currentOffset_; an error leaves the file
\* open.
SharedCloseDirectory(t) ==
    /\ pc[t] = "z_cd"
    /\ \E good \in BOOLEAN :
         IF good
         THEN /\ shFile' = shFile \o [i \in 1..Len(shDir) |->
                                        <<shDir[i].id, "cd">>]
              /\ shOffset' = shOffset + Len(shDir)
              /\ pc' = [pc EXCEPT ![t] = "z_eocd"]
         ELSE /\ pc' = [pc EXCEPT ![t] = "z_done"]
              /\ UNCHANGED <<shFile, shOffset>>
    /\ UNCHANGED <<poolVars, held, perr, histVars, harnVars, arVars, zipVars,
                   flVars, tkVars, exVars, alVars, mtVars, writeMutex,
                   shOpen, shDir, shEntry>>

\* close, lines 624-631: the end record is written and the file closed.
SharedCloseEnd(t) ==
    /\ pc[t] = "z_eocd"
    /\ pc' = [pc EXCEPT ![t] = "z_done"]
    /\ \E good \in BOOLEAN :
         IF good
         THEN /\ shFile' = Append(shFile, <<NoTask, "eocd">>)
              /\ shOpen' = FALSE
         ELSE UNCHANGED <<shFile, shOpen>>
    /\ UNCHANGED <<poolVars, held, perr, histVars, harnVars, arVars, zipVars,
                   flVars, tkVars, exVars, alVars, mtVars, writeMutex,
                   shOffset, shDir, shEntry>>

(***************************************************************************)
(* SpecPool: one pool ("process") with an executor that may fail, two      *)
(* producer threads, a thread that calls close() and one that may call     *)
(* cancel().                                                               *)
(***************************************************************************)
ExecutorResults == {"OK", "FILE_READ_ERROR", "FILE_WRITE_ERROR"}

\* Line 212: Error err = executor_(task).
GenericExec(w) ==
    LET p == PoolOf(w) IN
    /\ pc[w] = "exec"
    /\ \E e \in ExecutorResults :
         /\ perr' = [perr EXCEPT ![w] = e]
         /\ pc' = [pc EXCEPT ![w] = IF IsErr(e) THEN "seterr" ELSE "lock"]
    /\ finished' = [finished EXCEPT ![p] = @ \cup {held[w]}]
    /\ held' = [held EXCEPT ![w] = NoTask]
    /\ UNCHANGED <<poolVars, accepted, executed, discarded, errLog,
                   closeResult, cancelCalled, queuedAtClose, harnVars, extVars>>

ProducerCall(t) ==
    /\ t \in Producers
    /\ pc[t] = "idle"
    /\ nextTask <= MaxTasks
    /\ held' = [held EXCEPT ![t] = nextTask]
    /\ nextTask' = nextTask + 1
    /\ pc' = [pc EXCEPT ![t] = "enq"]
    /\ UNCHANGED <<poolVars, perr, histVars, extVars>>

CtlClose ==
    /\ PoolCloseBegin(Ctl, "process", "idle", "join")
    /\ UNCHANGED <<tasks, cancelled, firstError, running, conc, cap, held,
                   perr, accepted, executed, finished, discarded, errLog,
                   closeResult, cancelCalled, harnVars, extVars>>

CtlJoin ==
    /\ PoolCloseJoin(Ctl, "process", "join", "closed")
    /\ UNCHANGED <<tasks, shutdown, cancelled, firstError, conc, cap, held,
                   perr, accepted, executed, finished, discarded, errLog,
                   cancelCalled, queuedAtClose, harnVars, extVars>>

UserCancel ==
    /\ PoolCancel(User, "process", "idle", "done")
    /\ UNCHANGED <<shutdown, firstError, running, conc, cap, held, perr,
                   accepted, executed, finished, errLog, closeResult,
                   queuedAtClose, harnVars, extVars>>

\* What the constructors leave in every specification: empty queues, no
\* error, nothing observed yet.
InitIdle ==
    /\ tasks = [p \in Pools |-> <<>>]
    /\ shutdown = [p \in Pools |-> FALSE]
    /\ cancelled = [p \in Pools |-> FALSE]
    /\ firstError = [p \in Pools |-> OK]
    /\ held = [t \in Threads |-> NoTask]
    /\ perr = [t \in Threads |-> OK]
    /\ accepted = [p \in Pools |-> <<>>]
    /\ executed = [p \in Pools |-> <<>>]
    /\ finished = [p \in Pools |-> {}]
    /\ discarded = [p \in Pools |-> {}]
    /\ errLog = [p \in Pools |-> <<>>]
    /\ closeResult = [p \in Pools |-> "none"]
    /\ cancelCalled = [p \in Pools |-> FALSE]
    /\ queuedAtClose = [p \in Pools |-> 0]
    /\ nextTask = 1

\* A started pool "process" of 1..MaxWorkers workers and capacity
\* 1..MaxCapacity; the writer pool is not used.
InitPool ==
    /\ InitIdle
    /\ \E n \in 1..MaxWorkers, c \in 1..MaxCapacity :
         /\ conc = [p \in Pools |-> IF p = "process" THEN n ELSE 1]
         /\ cap = [p \in Pools |-> c]
         /\ pc = [t \in Threads |->
                    CASE t \in CompressWorkers ->
                           IF WorkerIndex(t) <= n THEN "lock" ELSE "none"
                      [] t \in Producers \cup {Ctl, User} -> "idle"
                      [] OTHER -> "none"]
    /\ running = [p \in Pools |-> p = "process"]
    /\ InitArchiverIdle
    /\ InitZipIdle
    /\ InitFlateIdle
    /\ InitTaskIdle
    /\ InitExtractIdle
    /\ InitLifeIdle
    /\ InitMatchIdle
    /\ InitSharedIdle

NextPool ==
    \/ \E w \in CompressWorkers : WorkerLock(w)
    \/ \E w \in CompressWorkers : WorkerSleep(w)
    \/ \E w \in CompressWorkers : WorkerCheck(w)
    \/ \E w \in CompressWorkers : GenericExec(w)
    \/ \E w \in CompressWorkers : WorkerSetErr(w)
    \/ \E t \in Producers : ProducerCall(t)
    \/ \E t \in Producers : Enqueue(t)
    \/ \E t \in Threads : SpuriousWake(t)
    \/ CtlClose
    \/ CtlJoin
    \/ UserCancel

SpecPool == InitPool /\ [][NextPool]_vars

\* Threads that are scheduled keep running; calls of close() and cancel()
\* and spurious wake-ups are not guaranteed to happen.
FairPool ==
    /\ \A w \in CompressWorkers :
         WF_vars(WorkerLock(w) \/ WorkerSleep(w) \/ WorkerCheck(w)
                 \/ GenericExec(w) \/ WorkerSetErr(w))
    /\ \A t \in Producers : WF_vars(Enqueue(t))
    /\ WF_vars(CtlJoin)

SpecPoolFair == SpecPool /\ FairPool

(***************************************************************************)
(* SpecZipShared: the pool of SpecPool with MaxWorkers workers whose       *)
(* executor is ZipWriter::createRaw on one ZipWriter, and the thread that  *)
(* closes the pool, joins it and then closes the ZipWriter.                *)
(***************************************************************************)
InitZipShared ==
    /\ InitPool
    /\ conc["process"] = MaxWorkers

NextZipShared ==
    \/ \E w \in CompressWorkers : WorkerLock(w)
    \/ \E w \in CompressWorkers : WorkerSleep(w)
    \/ \E w \in CompressWorkers : WorkerCheck(w)
    \/ \E w \in CompressWorkers : RawBegin(w)
    \/ \E w \in CompressWorkers : RawHeader(w)
    \/ \E w \in CompressWorkers : RawData(w)
    \/ \E w \in CompressWorkers : RawDescriptor(w)
    \/ \E w \in CompressWorkers : RawRecord(w)
    \/ \E w \in CompressWorkers : WorkerSetErr(w)
    \/ \E t \in Producers : ProducerCall(t)
    \/ \E t \in Producers : Enqueue(t)
    \/ CtlClose
    \/ CtlJoin
    \/ SharedCloseBegin(Ctl)
    \/ SharedCloseDirectory(Ctl)
    \/ SharedCloseEnd(Ctl)

SpecZipShared == InitZipShared /\ [][NextZipShared]_vars

(***************************************************************************)
(* SpecArchive: Archiver::archive() over MaxPaths paths with a process     *)
(* pool of 1..MaxWorkers workers, the writer pool of one worker, both of   *)
(* capacity 2 * concurrency (part_000:47-57), and a user who may cancel.   *)
(***************************************************************************)
ArchiveStart(concurrencies, levels, paths) ==
    /\ InitIdle
    /\ \E n \in concurrencies :
         /\ conc = [p \in Pools |-> IF p = "process" THEN n ELSE 1]
         /\ cap = [p \in Pools |-> 2 * n]
    /\ pc = [t \in Threads |->
               CASE t = Main -> "ar_open"
                 [] t = User -> "idle"
                 [] OTHER -> "none"]
    /\ running = [p \in Pools |-> FALSE]
    /\ InitArchiverIdle
    /\ ArchiverNew(levels, paths)
    /\ InitZipIdle
    /\ InitFlateIdle
    /\ InitTaskIdle
    /\ InitExtractIdle
    /\ InitMatchIdle
    /\ InitSharedIdle

InitArchive == ArchiveStart(1..MaxWorkers, {DEFAULT_LEVEL}, MaxPaths)

NextArchive ==
    \/ MainOpen
    \/ MainStart
    \/ MainWalk
    \/ Enqueue(Main)
    \/ MainCloseProcess
    \/ MainJoinProcess
    \/ MainCloseWriter
    \/ MainJoinWriter
    \/ \E w \in Workers : WorkerLock(w)
    \/ \E w \in Workers : WorkerSleep(w)
    \/ \E w \in Workers : WorkerCheck(w)
    \/ \E w \in Workers : WorkerSetErr(w)
    \/ \E w \in CompressWorkers : CompressFile(w)
    \/ \E w \in CompressWorkers : Enqueue(w)
    \/ \E w \in CompressWorkers : CompressReturn(w)
    \/ ArchiveFile(WriterWorker)
    \/ \E t \in Threads : SpuriousWake(t)
    \/ CancelSetFlag
    \/ CancelProcessPool
    \/ CancelWriterPool
    \/ \E p \in Pools : PoolDtorBegin(p)
    \/ \E p \in Pools : PoolDtorCancel(p)
    \/ \E p \in Pools : PoolDtorClose(p)
    \/ \E p \in Pools : PoolDtorJoin(p)
    \/ DtorZipWriter
    \/ \E w \in CompressWorkers : EnqueueDestroyed(w)

SpecArchive == InitArchive /\ [][NextArchive]_vars

(***************************************************************************)
(* SpecArchiveLong: the same with one compress worker and LongPaths paths, *)
(* enough to fill both queues (capacity 2) while a task is being executed. *)
(***************************************************************************)
InitArchiveLong == ArchiveStart({1}, {DEFAULT_LEVEL}, LongPaths)

SpecArchiveLong == InitArchiveLong /\ [][NextArchive]_vars

(***************************************************************************)
(* SpecArchiveLevels: the same with one compress worker and every          *)
(* compression level the command line accepts for a DEFLATE stream.        *)
(***************************************************************************)
ArchiveLevels == 1..9

InitArchiveLevels == ArchiveStart({1}, ArchiveLevels, MaxPaths)

SpecArchiveLevels == InitArchiveLevels /\ [][NextArchive]_vars

(***************************************************************************)
(* SpecZip: one caller makes up to MaxCalls calls of open(), createRaw(),  *)
(* createDirectory() and close() on a ZipWriter, with members of several   *)
(* shapes (one of them large enough to push later members past 4 GiB) and  *)
(* with write faults.                                                      *)
(***************************************************************************)
HeaderShapes ==
    { [nameLen |-> 5, endsSlash |-> FALSE, extraLen |-> 9, crc |-> 1001,
       csize |-> U64Of(7), usize |-> U64Of(20), dd |-> TRUE],
      [nameLen |-> 3, endsSlash |-> FALSE, extraLen |-> 0, crc |-> 1002,
       csize |-> U64Of(4), usize |-> U64Of(4), dd |-> FALSE],
      [nameLen |-> 8, endsSlash |-> FALSE, extraLen |-> 9, crc |-> 1003,
       csize |-> <<Limb - 1, Limb - 36>>, usize |-> <<Limb - 1, Limb - 36>>,
       dd |-> TRUE],
      \* 2^32-40 bytes that do not compress: with the 33 bytes of its local
      \* header the member ends at byte 2^32-1 of an empty archive
      [nameLen |-> 3, endsSlash |-> FALSE, extraLen |-> 0, crc |-> 1004,
       csize |-> <<Limb - 1, Limb - 34>>, usize |-> <<Limb - 1, Limb - 40>>,
       dd |-> FALSE],
      \* 2^31 bytes that compress to 2^31 - 64
      [nameLen |-> 6, endsSlash |-> FALSE, extraLen |-> 9, crc |-> 1009,
       csize |-> <<Limb \div 2 - 1, Limb - 64>>, usize |-> <<Limb \div 2, 0>>,
       dd |-> TRUE],
      \* 2^32-1, 2^32-2 and 2^32 bytes, all compressing well
      [nameLen |-> 4, endsSlash |-> FALSE, extraLen |-> 0, crc |-> 1005,
       csize |-> U64Of(9), usize |-> <<Limb - 1, Limb - 1>>, dd |-> TRUE],
      [nameLen |-> 4, endsSlash |-> FALSE, extraLen |-> 9, crc |-> 1006,
       csize |-> U64Of(9), usize |-> <<Limb - 1, Limb - 2>>, dd |-> FALSE],
      [nameLen |-> 4, endsSlash |-> FALSE, extraLen |-> 9, crc |-> 1007,
       csize |-> U64Of(9), usize |-> <<Limb, 0>>, dd |-> TRUE] }

DirectoryShapes ==
    { [nameLen |-> 4, endsSlash |-> TRUE, extraLen |-> 0, crc |-> 0,
       csize |-> U64Of(0), usize |-> U64Of(0), dd |-> FALSE],
      [nameLen |-> 3, endsSlash |-> FALSE, extraLen |-> 9, crc |-> 1008,
       csize |-> U64Of(0), usize |-> U64Of(0), dd |-> TRUE] }

\* The header of the next call: the shape plus a fresh member id.
WithId(sh) ==
    [id |-> zCalls + 1, nameLen |-> sh.nameLen, endsSlash |-> sh.endsSlash,
     extraLen |-> sh.extraLen, crc |-> sh.crc, csize |-> sh.csize,
     usize |-> sh.usize, dd |-> sh.dd]

ZipIdleRest ==
    UNCHANGED <<poolVars, thrVars, histVars, harnVars, arVars, flVars,
                tkVars, exVars, alVars, mtVars, shVars>>

ZOpen ==
    /\ zCalls < MaxCalls
    /\ \E ok \in BOOLEAN : ZipOpen(ok)
    /\ ZipIdleRest

ZCreateRaw ==
    /\ zCalls < MaxCalls
    /\ \E sh \in HeaderShapes, f \in ZipFaults :
          ZipCreateRaw(WithId(sh), sh.csize, f, "createRaw")
    /\ ZipIdleRest

ZCreateDirectory ==
    /\ zCalls < MaxCalls
    /\ \E sh \in DirectoryShapes, f \in ZipFaults :
          ZipCreateDirectory(WithId(sh), f)
    /\ ZipIdleRest

ZClose ==
    /\ zCalls < MaxCalls
    /\ \E f \in CloseFaults : ZipClose(f)
    /\ ZipIdleRest

ZReaderOpen ==
    /\ ZipReaderOpen
    /\ ZipIdleRest

InitZip ==
    /\ InitIdle
    /\ conc = [p \in Pools |-> 1]
    /\ cap = [p \in Pools |-> 1]
    /\ pc = [t \in Threads |-> "none"]
    /\ running = [p \in Pools |-> FALSE]
    /\ InitArchiverIdle
    /\ InitZipIdle
    /\ InitFlateIdle
    /\ InitTaskIdle
    /\ InitExtractIdle
    /\ InitLifeIdle
    /\ InitMatchIdle
    /\ InitSharedIdle

NextZip == ZOpen \/ ZCreateRaw \/ ZCreateDirectory \/ ZClose \/ ZReaderOpen

SpecZip == InitZip /\ [][NextZip]_vars

(***************************************************************************)
(* SpecFlate: one FlateWriter fed by write() calls and closed, or one      *)
(* FastDeflate::compress() call, on an input drawn from FlateInputs.       *)
(***************************************************************************)
FlateLevels == {1, 3}

\* What a freshly constructed Tokens member may hold: the arrays have no
\* initialiser and FlateWriter's constructor does not call reset().
UninitTokens == {0, 255}
UninitHists  == {NoEntries, [x \in {0} |-> 60000]}

\* inputs: a run of distinct bytes, a repeating text, and a text over three
\* byte values that the match finder finds almost nothing in
DistinctBytes(n)  == [i \in 1..n |-> (7 * i) % 256]
RepeatingBytes(n) == [i \in 1..n |-> 97 + (i % 3)]
SparseBytes ==
    <<1, 2, 1, 0, 2, 1, 2, 1, 0, 2, 2, 0, 2, 0, 2, 0, 0, 1, 1, 0,
      1, 2, 0, 2, 0, 1, 2, 0, 0, 1, 0, 2, 0, 0, 2, 0, 1, 2, 1, 0,
      2, 0, 2, 1, 1, 0, 0, 0, 2, 1, 2, 0, 0, 1, 0, 2, 1, 2, 0, 2,
      1, 2, 1, 0, 1, 2, 0, 1, 2, 2, 0, 0, 1, 1, 2, 0, 1, 2, 1, 2,
      0, 2, 1, 2, 2, 1, 1, 1, 2, 2, 2, 2, 1, 0, 2, 1, 1, 0, 1, 0,
      1, 2, 2, 2, 1, 1, 0, 1, 1, 2, 1, 0, 2, 0, 1, 1, 2, 0, 2, 0,
      2, 2, 0, 1, 2, 0, 0, 0, 0, 0, 1, 1, 2, 0, 0, 1, 1, 2, 2, 0,
      1, 1, 1, 2, 0, 0, 0, 1, 0, 0, 1, 2, 2, 0, 2, 2, 0, 0, 0, 0,
      2, 0, 0, 1, 2, 0, 1, 0, 1, 1, 0, 0, 1, 1, 0, 0, 0, 0, 1, 2,
      1, 1, 1, 0, 0, 2, 1, 0, 0, 2, 2, 1, 0, 1, 0, 1, 2, 2, 2, 1,
      0, 0, 0, 2, 0, 2, 1, 0, 1, 1, 1, 0, 0, 0, 0, 0, 2, 1, 0, 0,
      1, 2, 0, 1, 0, 0, 0, 1, 2, 0, 0, 2, 2, 1, 0, 0, 2, 0, 0, 1>>

InputLens == {0, 1, 12, 13, 40, WindowSize, WindowSize + 1, WindowSize + 12,
              WindowSize + 13}
FlateInputs ==
    {DistinctBytes(n) : n \in InputLens}
    \cup {RepeatingBytes(n) : n \in InputLens}
    \cup {SubSeq(SparseBytes, 1, n) : n \in {WindowSize, Len(SparseBytes)}}

\* sizes of the buffers handed to write(): Archiver::compress() reads the
\* file in buffers of about half a window; the last read is shorter
ReadSizes(remaining) == {Min(remaining, 13), Min(remaining, WindowSize \div 2),
                         remaining}

FlateObject == [window |-> window, en |-> encoder, tk |-> tokens,
                w |-> writer]

\* the FlateWriter fw becomes the state
FlateInstall(fw) ==
    /\ window' = fw.window
    /\ encoder' = fw.en
    /\ tokens' = fw.tk
    /\ writer' = fw.w

FlateIdleRest ==
    UNCHANGED <<poolVars, thrVars, histVars, harnVars, arVars, zipVars,
                tkVars, exVars, alVars, mtVars, shVars>>

\* FlateWriter::write(data, size) with the next bytes of the input
FlateWrite ==
    /\ flState \in {"new", "open"}
    /\ flFed < Len(flInput)
    /\ \E k \in ReadSizes(Len(flInput) - flFed) :
          /\ FlateInstall(FlateWriterWrite(FlateObject,
                              SubSeq(flInput, flFed + 1, flFed + k)))
          /\ flFed' = flFed + k
    /\ flState' = "open"
    /\ flApi' = "FlateWriter"
    /\ UNCHANGED <<flInput, flLevel>>
    /\ FlateIdleRest

\* FlateWriter::close() once the whole input was written
FlateClose ==
    /\ flState \in {"new", "open"}
    /\ flFed = Len(flInput)
    /\ FlateInstall(FlateWriterClose(FlateObject))
    /\ flState' = "closed"
    /\ flApi' = "FlateWriter"
    /\ UNCHANGED <<flInput, flLevel, flFed>>
    /\ FlateIdleRest

\* deflateCompress(input, size, output, level): a FastDeflate is built
\* (its writer keeps the default penalty) and compress() runs once
FastDeflateRun ==
    /\ flState = "new"
    /\ FlateInstall(FastDeflateCompress(
                        [window |-> window, en |-> NewEncoder,
                         tk |-> tokens, w |-> NewBitWriter(7)], flInput))
    /\ flFed' = Len(flInput)
    /\ flState' = "closed"
    /\ flApi' = "FastDeflate"
    /\ UNCHANGED <<flInput, flLevel>>
    /\ FlateIdleRest

InitFlate ==
    /\ flInput \in FlateInputs
    /\ flLevel \in FlateLevels
    /\ flFed = 0
    /\ flState = "new"
    /\ flApi = "none"
    /\ window = <<>>
    /\ encoder = NewEncoder
    /\ \E fill \in UninitTokens, h \in UninitHists :
          tokens = [n |-> 0, arr |-> <<>>, litHist |-> h,
                    extraHist |-> NoEntries, offHist |-> NoEntries,
                    fill |-> fill]
    /\ writer = NewBitWriter(Penalty(flLevel))
    /\ InitIdle
    /\ conc = [p \in Pools |-> 1]
    /\ cap = [p \in Pools |-> 1]
    /\ pc = [t \in Threads |-> "none"]
    /\ running = [p \in Pools |-> FALSE]
    /\ InitArchiverIdle
    /\ InitZipIdle
    /\ InitTaskIdle
    /\ InitExtractIdle
    /\ InitLifeIdle
    /\ InitMatchIdle
    /\ InitSharedIdle

NextFlate == FlateWrite \/ FlateClose \/ FastDeflateRun

SpecFlate == InitFlate /\ [][NextFlate]_vars

(***************************************************************************)
(* SpecTask: one FileTask, as Archiver uses it: reset(), the write()       *)
(* calls of the compressor, readCompressedData() from the writer, in any   *)
(* order and with a temporary file that may fail to open, and the         *)
(* FileTaskPool it is released to and acquired from.                      *)
(***************************************************************************)
TaskIdleRest ==
    UNCHANGED <<poolVars, thrVars, histVars, harnVars, arVars, zipVars,
                flVars, exVars, alVars, mtVars, shVars>>

TWrite == TaskWrite /\ TaskIdleRest
TReadCompressedData == TaskReadCompressedData /\ TaskIdleRest
TReset == TaskReset /\ TaskIdleRest
TRelease == TaskRelease /\ TaskIdleRest
TAcquire == TaskAcquire /\ TaskIdleRest
TOtherRelease == OtherRelease /\ TaskIdleRest
TOtherAcquire == OtherAcquire /\ TaskIdleRest

InitTask ==
    /\ TaskFresh
    /\ tkOp = "new"
    /\ InitIdle
    /\ conc = [p \in Pools |-> 1]
    /\ cap = [p \in Pools |-> 1]
    /\ pc = [t \in Threads |-> "none"]
    /\ running = [p \in Pools |-> FALSE]
    /\ InitArchiverIdle
    /\ InitZipIdle
    /\ InitFlateIdle
    /\ InitExtractIdle
    /\ InitLifeIdle
    /\ InitMatchIdle
    /\ InitSharedIdle

NextTask ==
    \/ TWrite \/ TReadCompressedData \/ TReset
    \/ TRelease \/ TAcquire \/ TOtherRelease \/ TOtherAcquire

SpecTask == InitTask /\ [][NextTask]_vars

(***************************************************************************)
(* SpecExtract: up to MaxExtracts extractFile() calls of one Extractor,    *)
(* with any options, on a disk that may hold files already, and cancel().  *)
(***************************************************************************)
ExtractIdleRest ==
    UNCHANGED <<poolVars, thrVars, histVars, harnVars, arVars, zipVars,
                flVars, tkVars, alVars, mtVars, shVars>>

EExtractFile == ExtractFile /\ ExtractIdleRest
ECancel == ExtractorCancel /\ ExtractIdleRest

InitExtract ==
    /\ exFs \in InitialDisks
    /\ exFsBefore = exFs
    /\ exOverwrite \in BOOLEAN
    /\ exPreserve \in BOOLEAN
    /\ exCancelled = FALSE
    /\ exEntry = NoEntry
    /\ exRet = OK
    /\ exCalls = 0
    /\ exOp = "new"
    /\ InitIdle
    /\ conc = [p \in Pools |-> 1]
    /\ cap = [p \in Pools |-> 1]
    /\ pc = [t \in Threads |-> "none"]
    /\ running = [p \in Pools |-> FALSE]
    /\ InitArchiverIdle
    /\ InitZipIdle
    /\ InitFlateIdle
    /\ InitTaskIdle
    /\ InitLifeIdle
    /\ InitMatchIdle
    /\ InitSharedIdle

NextExtract == EExtractFile \/ ECancel

SpecExtract == InitExtract /\ [][NextExtract]_vars

(***************************************************************************)
(* SpecMatch: one call of Tokens::addMatchLong with a match of any length  *)
(* and distance the match finders emit.                                    *)
(***************************************************************************)
MMatchEmit ==
    /\ MatchEmit
    /\ UNCHANGED <<poolVars, thrVars, histVars, harnVars, arVars, zipVars,
                   flVars, tkVars, exVars, alVars, shVars>>

InitMatch ==
    /\ InitIdle
    /\ conc = [p \in Pools |-> 1]
    /\ cap = [p \in Pools |-> 1]
    /\ pc = [t \in Threads |-> "none"]
    /\ running = [p \in Pools |-> FALSE]
    /\ InitArchiverIdle
    /\ InitLifeIdle
    /\ InitZipIdle
    /\ InitFlateIdle
    /\ InitTaskIdle
    /\ InitExtractIdle
    /\ InitMatchIdle
    /\ InitSharedIdle

NextMatch == MMatchEmit

SpecMatch == InitMatch /\ [][NextMatch]_vars

(***************************************************************************)
(* Claims about WorkerPool, checked under SpecPool / SpecPoolFair.         *)
(***************************************************************************)
GP == "process"     \* the pool SpecPool drives

\* C4: a thread blocked in enqueue() on a full queue eventually returns once
\* the pool is shut down or cancelled, whichever way that happened (close(),
\* cancel(), or a worker setting cancelled_ after an executor error).
C4_BlockedEnqueueReturns ==
    \A t \in Producers :
        (pc[t] = "enq_asleep" /\ (shutdown[GP] \/ cancelled[GP]))
            ~> (pc[t] \notin {"enq", "enq_asleep"})

\* C5: close() returns the first error recorded: the error stored first is
\* never replaced, it is what close() returns, and close() returns OK when no
\* executor returned an error.
C5_CloseReturnsFirstError ==
    /\ errLog[GP] # <<>> => firstError[GP] = Head(errLog[GP])
    /\ errLog[GP] = <<>> => firstError[GP] = OK
    /\ closeResult[GP] # "none" =>
          closeResult[GP] = IF errLog[GP] = <<>> THEN OK ELSE Head(errLog[GP])

\* Two executors returned different errors and close() has returned.
C5_Witness ==
    /\ closeResult[GP] # "none"
    /\ Len(errLog[GP]) >= 2
    /\ errLog[GP][1] # errLog[GP][2]

Occurrences(q, x) == Cardinality({i \in 1..Len(q) : q[i] = x})
SeqRange(q)       == {q[i] : i \in 1..Len(q)}

\* C6: with no executor error and no cancel(), every task accepted by
\* enqueue() is passed to the executor exactly once and close() returns only
\* after all of those executor calls have finished.
C6_CloseDrainsQueue ==
    (closeResult[GP] # "none" /\ errLog[GP] = <<>> /\ ~cancelCalled[GP]) =>
        /\ tasks[GP] = <<>>
        /\ \A k \in SeqRange(accepted[GP]) :
              /\ Occurrences(executed[GP], k) = 1
              /\ k \in finished[GP]

\* close() was called while tasks were still queued, and has returned.
C6_Witness ==
    /\ closeResult[GP] # "none"
    /\ errLog[GP] = <<>>
    /\ ~cancelCalled[GP]
    /\ queuedAtClose[GP] >= 1
    /\ Len(accepted[GP]) >= 2

\* C7: after cancel() has returned the queue is empty and stays empty, no
\* task is accepted or handed to the executor any more, an executor call
\* that is running completes, and every worker thread eventually exits.
C7_AfterCancel ==
    /\ [](cancelCalled[GP] => tasks[GP] = <<>>)
    /\ [][cancelCalled[GP] =>
             /\ tasks'[GP] = <<>>
             /\ accepted'[GP] = accepted[GP]
             /\ executed'[GP] = executed[GP]]_vars
    /\ [][\A w \in CompressWorkers :
             (cancelCalled[GP] /\ pc[w] = "exec" /\ pc'[w] # "exec")
                 => held[w] \in finished'[GP]]_vars
    /\ cancelCalled[GP] ~> (\A w \in Spawned(GP) : pc[w] = "exited")

\* cancel() returned while an executor call was running and after it had
\* removed queued tasks.
C7_Witness ==
    /\ cancelCalled[GP]
    /\ discarded[GP] # {}
    /\ \E w \in CompressWorkers : pc[w] = "exec"

(***************************************************************************)
(* Claims about Archiver::archive(), checked under SpecArchive.            *)
(***************************************************************************)
IsPrefix(s, q) == Len(s) <= Len(q) /\ \A i \in 1..Len(s) : s[i] = q[i]
\* Position of x in a sequence without repetitions (0 when absent).
PositionIn(q, x) == IF \E i \in 1..Len(q) : q[i] = x
                    THEN CHOOSE i \in 1..Len(q) : q[i] = x ELSE 0
CentralDirIds == [i \in 1..Len(centralDir) |-> centralDir[i].h.id]
LocalHeaderIds == [i \in 1..Len(lfhLog) |-> lfhLog[i].id]

\* archive() ran through both close() calls, no executor returned an error
\* and cancel() was not called.
CleanArchiveRun ==
    /\ archiveResult # "none"
    /\ closeResult["writer"] # "none"
    /\ errLog["process"] = <<>>
    /\ errLog["writer"] = <<>>
    /\ ~arCancelled

C8_CancelFailsArchive ==
    [][(/\ cancelMidway
        /\ pc[User] = "done"
        /\ archiveResult = "none"
        /\ archiveResult' # "none") => IsErr(archiveResult')]_vars

\* C9: a pool with one worker hands tasks to its executor in the order in
\* which enqueue() accepted them, whatever the number of producers; the
\* writer therefore puts members into the archive in the order in which the
\* compress workers enqueued them.
C9_SingleWorkerFifo ==
    /\ \A p \in Pools : conc[p] = 1 => IsPrefix(executed[p], accepted[p])
    /\ \A i, j \in 1..Len(lfhLog) :
          i < j => PositionIn(accepted["writer"], lfhLog[i].id)
                      < PositionIn(accepted["writer"], lfhLog[j].id)
    /\ \A i \in 1..Len(lfhLog) :
          PositionIn(accepted["writer"], lfhLog[i].id) > 0

\* Two compress workers enqueued into the writer pool in an order that
\* differs from the walker's, and both members were written.
C9_Witness ==
    /\ Len(accepted["writer"]) >= 2
    /\ accepted["writer"][1] > accepted["writer"][2]
    /\ SeqRange(LocalHeaderIds) = SeqRange(accepted["writer"])

\* The members of s appear in q, in the order they have in s.
InOrderOf(s, q) ==
    /\ \A i \in 1..Len(s) : PositionIn(q, s[i]) > 0
    /\ \A i, j \in 1..Len(s) :
          i < j => PositionIn(q, s[i]) < PositionIn(q, s[j])

\* C11 as stated: for any number of compress workers, the central-directory
\* list is in the order in which members were written to disk, and that
\* order is the order in which the walker enqueued the files.
C11_DirectoryInWalkOrder ==
    /\ InOrderOf(CentralDirIds, LocalHeaderIds)
    /\ InOrderOf(CentralDirIds, accepted["process"])

\* C11 as amended: for any number of compress workers, the central-directory
\* list is in the order in which members were written to disk, which is the
\* order in which the compress workers enqueued them into the writer pool;
\* with one compress worker it is the order in which the walker enqueued
\* the files.
C11_DirectoryInDiskOrder ==
    /\ InOrderOf(CentralDirIds, LocalHeaderIds)
    /\ InOrderOf(CentralDirIds, accepted["writer"])
    /\ conc["process"] = 1 => InOrderOf(CentralDirIds, accepted["process"])

\* Two compress workers; the central directory lists two members, the one
\* the walker enqueued later first.
C11_Witness ==
    /\ conc["process"] = 2
    /\ Len(centralDir) >= 2
    /\ PositionIn(accepted["process"], CentralDirIds[1])
          > PositionIn(accepted["process"], CentralDirIds[2])

\* C12: when an enumerated input cannot be processed (FileTask::reset fails
\* for an entry during a directory walk, the source cannot be opened or read
\* in full, or writing the member fails), archive() returns an error: it
\* never returns OK with an archive that omits the member.
C12_MemberErrorIsFatal ==
    archiveResult = OK =>
        /\ omitted = {}
        /\ \A p \in Pools : \A i \in 1..Len(errLog[p]) :
              errLog[p][i] = "CANCELLED"

\* archive() returned OK for a run in which the walker enqueued the empty
\* file of path 1 and nothing else, and cancel() was not called.
EmptyFileArchived ==
    /\ CleanArchiveRun
    /\ archiveResult = OK
    /\ accepted["process"] = <<1>>
    /\ FileSize(1) = 0

\* C17 as stated: archiving a single empty regular file produces exactly
\* one local header, one data descriptor whose CRC, compressed size and
\* uncompressed size are all 0, and one central-directory entry.
C17_EmptyFileAllZero ==
    EmptyFileArchived =>
        /\ Len(lfhLog) = 1
        /\ Len(ddLog) = 1
        /\ ddLog[1].rec.crc32 = 0
        /\ ddLog[1].rec.csize = U64Of(0)
        /\ ddLog[1].rec.usize = U64Of(0)
        /\ Len(centralDir) = 1

\* C17 as amended: archiving a single empty regular file produces exactly
\* one local header, one data descriptor whose CRC and uncompressed size
\* are 0 and whose compressed size is 2, the bytes of the empty final block
\* FlateWriter::close() writes, and one central-directory entry.
C17_EmptyFileMember ==
    EmptyFileArchived =>
        /\ Len(lfhLog) = 1
        /\ Len(ddLog) = 1
        /\ ddLog[1].rec.crc32 = 0
        /\ ddLog[1].rec.csize = U64Of(2)
        /\ ddLog[1].rec.usize = U64Of(0)
        /\ Len(centralDir) = 1

\* archive() returned OK after the writer wrote the empty file.
C17_Witness ==
    /\ EmptyFileArchived
    /\ executed["writer"] = <<1>>
    /\ ddLog # <<>>

(***************************************************************************)
(* Claims about ZipWriter, checked under SpecZip.                          *)
(***************************************************************************)
\* The records recs describe, one by one and in order, the local headers in
\* the file, at the positions where these start, with increasing offsets.
RecordsMatchHeaders(recs) ==
    /\ Len(recs) = Len(lfhLog)
    /\ \A i \in 1..Len(recs) :
          /\ recs[i].id = lfhLog[i].id
          /\ RecordedOffset(recs[i]) = lfhLog[i].pos
          /\ i > 1 => U64Less(RecordedOffset(recs[i - 1]),
                              RecordedOffset(recs[i]))

CloseSucceeded == zOp = "close" /\ zRet = OK /\ eocdOut # <<>>

\* C10: after successful createRaw / createDirectory calls and close(), the
\* i-th central-directory record describes the i-th local header written,
\* records the byte position where that header starts, and the offsets
\* increase strictly; a createRaw / createDirectory that returns an error
\* adds no central-directory entry, one that succeeds adds exactly one.
C10_DirectoryMatchesHeaders ==
    /\ [](CloseSucceeded => RecordsMatchHeaders(cdOut))
    /\ [][(zCalls' # zCalls /\ zOp' \in {"createRaw", "createDirectory"}) =>
             IF IsErr(zRet')
             THEN centralDir' = centralDir
             ELSE /\ Len(centralDir') = Len(centralDir) + 1
                  /\ SubSeq(centralDir', 1, Len(centralDir)) = centralDir
                  /\ centralDir'[Len(centralDir')].offset = fileLen]_vars

\* close() succeeded on an archive of at least three members, one of them a
\* directory and one starting beyond 4 GiB.
C10_Witness ==
    /\ CloseSucceeded
    /\ Len(cdOut) >= 3
    /\ \E i \in 1..Len(cdOut) : U64Less(ZIP_UINT32_MAX, cdOut[i].offset64)
    /\ \E i \in 1..Len(centralDir) : centralDir[i].h.endsSlash

\* C13: when close() has returned, with success or with the error of a
\* failed write of the central directory or of the end records, the file is
\* closed: isOpen() is false.
C13_CloseClosesFile == zOp = "close" => ~zOpen

\* 2^32 and 2^32-2 as 64-bit values; 2^32-1 is ZIP_UINT32_MAX.
TwoPow32 == <<Limb, 0>>
TwoPow32Less2 == <<Limb - 1, Limb - 2>>

\* close() wrote the central directory: record i of cdOut was written for
\* entry i of centralDir, whose local header is entry i of lfhLog.
DirectoryWritten ==
    /\ cdOut # <<>>
    /\ Len(cdOut) = Len(centralDir)
    /\ Len(centralDir) <= Len(lfhLog)
    /\ \A i \in 1..Len(cdOut) :
          cdOut[i].id = centralDir[i].h.id /\ lfhLog[i].id = cdOut[i].id

\* C14: a central-directory record carries the 28-byte ZIP64 extra (id
\* 0x0001, length 24, then uncompressed size, compressed size and
\* local-header offset as 64-bit values), version needed 45 and 0xFFFFFFFF
\* in both 32-bit size fields exactly when the uncompressed size, the
\* compressed size or the local-header offset is 2^32-1 or more; otherwise
\* it carries no ZIP64 extra and the real 32-bit sizes and offset.
C14_Zip64Promotion ==
    cdOut # <<>> =>
        /\ DirectoryWritten
        /\ \A i \in 1..Len(cdOut) :
              LET e == centralDir[i]
                  r == cdOut[i]
              IN  IF \/ U64Leq(ZIP_UINT32_MAX, e.h.usize)
                     \/ U64Leq(ZIP_UINT32_MAX, e.h.csize)
                     \/ U64Leq(ZIP_UINT32_MAX, e.offset)
                  THEN /\ r.extra64 = <<1, 24, e.h.usize, e.h.csize, e.offset>>
                       /\ r.extraLen = e.h.extraLen + 28
                       /\ r.versionNeeded = 45
                       /\ r.csize32 = ZIP_UINT32_MAX
                       /\ r.usize32 = ZIP_UINT32_MAX
                  ELSE /\ r.extra64 = <<>>
                       /\ r.extraLen = e.h.extraLen
                       /\ r.versionNeeded # 45
                       /\ r.csize32 = e.h.csize
                       /\ r.usize32 = e.h.usize
                       /\ r.offset32 = e.offset

\* A central directory was written with a record that is ZIP64 only because
\* its member starts at byte 2^32-1 exactly, and a record that is not ZIP64.
C14_Witness ==
    /\ DirectoryWritten
    /\ \E i \in 1..Len(cdOut) :
          /\ centralDir[i].offset = ZIP_UINT32_MAX
          /\ ~IsZip64(centralDir[i].h)
          /\ cdOut[i].extra64 # <<>>
    /\ \E i \in 1..Len(cdOut) : cdOut[i].extra64 = <<>>

\* C15 as stated: a member of exactly 2^32-1 bytes is written as non-ZIP64
\* (no ZIP64 extra, version needed not raised to 45, real 32-bit size
\* fields) and a member of exactly 2^32 bytes is written as ZIP64.
C15_BoundaryAtTwoPow32 ==
    DirectoryWritten =>
        \A i \in 1..Len(cdOut) :
            /\ centralDir[i].h.usize = ZIP_UINT32_MAX =>
                  /\ cdOut[i].extra64 = <<>>
                  /\ cdOut[i].versionNeeded # ZIP_VERSION_45
                  /\ lfhLog[i].rec.versionNeeded # ZIP_VERSION_45
                  /\ cdOut[i].usize32 = centralDir[i].h.usize
            /\ centralDir[i].h.usize = TwoPow32 =>
                  /\ cdOut[i].extra64 # <<>>
                  /\ cdOut[i].versionNeeded = ZIP_VERSION_45
                  /\ lfhLog[i].rec.versionNeeded = ZIP_VERSION_45

\* C15 as amended: a member of exactly 2^32-2 bytes (compressed size and
\* local-header offset below 2^32-1) is written as non-ZIP64 (no ZIP64
\* extra, version needed not raised to 45, real 32-bit size fields); a
\* member of exactly 2^32-1 bytes, like one of 2^32 bytes, is written as
\* ZIP64: version needed 45 in both headers, and in the central-directory
\* record the ZIP64 extra and 0xFFFFFFFF in both size fields.
C15_BoundaryAtUint32Max ==
    DirectoryWritten =>
        \A i \in 1..Len(cdOut) :
            LET e == centralDir[i]
                r == cdOut[i]
                l == lfhLog[i].rec
            IN  /\ (/\ e.h.usize = TwoPow32Less2
                    /\ U64Less(e.h.csize, ZIP_UINT32_MAX)
                    /\ U64Less(e.offset, ZIP_UINT32_MAX)) =>
                      /\ r.extra64 = <<>>
                      /\ l.extra64 = <<>>
                      /\ r.versionNeeded = ZIP_VERSION_20
                      /\ l.versionNeeded = ZIP_VERSION_20
                      /\ r.usize32 = e.h.usize
                      /\ r.csize32 = e.h.csize
                      /\ ~e.h.dd => l.usize32 = e.h.usize
                /\ e.h.usize \in {ZIP_UINT32_MAX, TwoPow32} =>
                      /\ r.extra64 # <<>>
                      /\ r.versionNeeded = ZIP_VERSION_45
                      /\ l.versionNeeded = ZIP_VERSION_45
                      /\ r.usize32 = ZIP_UINT32_MAX
                      /\ r.csize32 = ZIP_UINT32_MAX

\* A central directory was written for an archive that holds a member of
\* exactly 2^32-1 bytes and a member of exactly 2^32-2 bytes that starts
\* below 2^32-1.
C15_Witness ==
    /\ DirectoryWritten
    /\ \E i \in 1..Len(cdOut) : centralDir[i].h.usize = ZIP_UINT32_MAX
    /\ \E i \in 1..Len(cdOut) :
          /\ centralDir[i].h.usize = TwoPow32Less2
          /\ U64Less(centralDir[i].offset, ZIP_UINT32_MAX)

\* C16: for a member of 2^32 bytes or more, the local file header and the
\* central-directory record both carry a ZIP64 extra field and version
\* needed 45.
C16_Zip64OnBothHeaders ==
    DirectoryWritten =>
        \A i \in 1..Len(cdOut) :
            U64Leq(TwoPow32, centralDir[i].h.usize) =>
                /\ cdOut[i].extra64 # <<>>
                /\ cdOut[i].versionNeeded = ZIP_VERSION_45
                /\ lfhLog[i].rec.versionNeeded = ZIP_VERSION_45
                /\ lfhLog[i].rec.extra64 # <<>>

\* Where the data of member i ends: at its data descriptor if it has one,
\* else at the next local header or, for the last member, at the central
\* directory.
DataEnd(i) ==
    U64Sub(IF i < Len(lfhLog) THEN lfhLog[i + 1].pos ELSE eocdOut[1].offset64,
           IF centralDir[i].h.dd
           THEN U64Of(DataDescriptorSize(centralDir[i].h)) ELSE U64Of(0))

\* C18: after ZipWriter::close() and ZipReader::open() on the same file, the
\* reader has an entry for every member written (directories, members with
\* a data descriptor, members with sizes of 2^32-1 or more) whose crc32 is
\* the CRC-32 of the member's content, whose uncompressedSize is the length
\* of the content and whose compressedSize is the number of bytes between
\* its dataOffset and the end of the member's data.
C18_ReaderSeesMembers ==
    zOp = "readerOpen" =>
        /\ zRet = OK
        /\ Len(rdEntries) = Len(centralDir)
        /\ \A i \in 1..Len(rdEntries) :
              /\ rdEntries[i].crc32 = centralDir[i].h.crc
              /\ rdEntries[i].uncompressedSize = Exact(centralDir[i].h.usize)
              /\ rdEntries[i].compressedSize =
                    Exact(U64Sub(DataEnd(i), rdEntries[i].dataOffset))

(***************************************************************************)
(* Claims about FlateWriter and FastDeflate, checked under SpecFlate.      *)
(***************************************************************************)
\* the block headers of the stream written so far, in order
BlockHeaders == SelectSeq(writer.out, IsHeaderPart)

\* C1: for every input B, of every length and at every level, the stream
\* that write(B) followed by close() produces, and the stream that
\* FastDeflate::compress(B) produces, decodes to exactly B.
C1_RoundTrip ==
    flState = "closed" => Inflate(writer.out) = [ok |-> TRUE, data |-> flInput]

\* C2: in the stream produced by any sequence of write() calls followed by
\* close(), exactly one block header carries BFINAL=1 and it is the header
\* of the last block, whatever the types of the blocks before it.
C2_SingleFinalBlock ==
    (flState = "closed" /\ flApi = "FlateWriter") =>
        /\ Len(BlockHeaders) > 0
        /\ BlockHeaders[Len(BlockHeaders)].final
        /\ \A i \in 1..(Len(BlockHeaders) - 1) : ~BlockHeaders[i].final

(***************************************************************************)
(* Claims about FileTask, checked under SpecTask.                          *)
(***************************************************************************)

\* C19: after any write() calls since the last reset(), also when the
\* temporary file could not be opened, written() is the number of bytes
\* accepted across buffer_ and the temporary file: the sum of the values
\* write() returned and the number of bytes readCompressedData will replay;
\* after reset(), written() is 0, buffer_ is empty and no temporary file
\* is left.
C19_WrittenCountsAccepted ==
    /\ (tkReplays = 0 /\ tkWhere # "gone") =>
          /\ tkWritten = Len(tkAccepted)
          /\ tkWritten = Len(tkBuffer) + Len(tkSpill)
          /\ tkWritten = Len(Concat(TaskReplay(TaskObject)))
    /\ tkOp = "reset" =>
          /\ tkWritten = 0
          /\ tkBuffer = <<>>
          /\ tkOverflow = "null"
          /\ ~tkSpillExists

\* C20: the first readCompressedData() after the write() calls passes on
\* buffer_ first and then chunks of at most READ_BUFFER_SIZE bytes of the
\* temporary file from its start, and all chunks together are the bytes
\* write() took, in order; the temporary file exists exactly when more than
\* DEFAULT_BUFFER_SIZE bytes were written, and holds the bytes beyond the
\* first DEFAULT_BUFFER_SIZE.
C20_ReplayIsWhatWasWritten ==
    /\ (tkOp = "read" /\ tkReplays = 1) =>
          LET fromFile == IF tkBuffer = <<>> THEN tkReplay
                          ELSE Tail(tkReplay)
          IN  /\ Concat(tkReplay) = tkAccepted
              /\ tkBuffer # <<>> =>
                    tkReplay # <<>> /\ Head(tkReplay) = tkBuffer
              /\ fromFile = Chunks(tkSpill, READ_BUFFER_SIZE)
    /\ (tkReplays = 0 /\ tkWhere # "gone") =>
          /\ tkSpillExists <=> Len(tkAccepted) > DEFAULT_BUFFER_SIZE
          /\ tkSpillExists =>
                tkSpill = SubSeq(tkAccepted, DEFAULT_BUFFER_SIZE + 1,
                                 Len(tkAccepted))

\* C21: when FileTaskPool::release(task) has returned, the temporary file
\* of the task, if one was created, is deleted, whether the task was kept
\* in pool_ or destroyed.
C21_ReleaseDeletesSpill == tkOp = "release" => ~tkSpillExists

(***************************************************************************)
(* Claims about Extractor, checked under SpecExtract.                      *)
(***************************************************************************)
\* the path the last extractFile() call worked on
ExtractedPath == Normal(outputPath(exEntry.name))

\* the last call was an extractFile() without overwrite on a path that
\* was there before
SkippedExisting ==
    /\ exOp = "extractFile"
    /\ exRet # "CANCELLED"
    /\ ~exOverwrite
    /\ ExtractedPath \in DOMAIN exFsBefore

\* C22: with overwrite = false, extractFile() of an entry whose target path
\* exists returns no error and leaves what is there as it was: same
\* content, same permission bits, same modification time.
C22_SkipLeavesFileAlone ==
    SkippedExisting =>
        /\ exRet = OK
        /\ ExtractedPath \in DOMAIN exFs
        /\ exFs[ExtractedPath] = exFsBefore[ExtractedPath]

\* p is the output directory or lies below it
InsideOutputDir(p) ==
    Len(p) >= Len(OutputDir) /\ SubSeq(p, 1, Len(OutputDir)) = OutputDir

\* the paths the last extractFile() call created, removed or changed
TouchedPaths ==
    {p \in DOMAIN exFs \cup DOMAIN exFsBefore :
        \/ p \notin DOMAIN exFsBefore
        \/ p \notin DOMAIN exFs
        \/ exFs[p] # exFsBefore[p]}

\* C29: for every entry name, also one with ".." components or a leading
\* "/", the path outputPath computes, and every path extractFile creates
\* or writes, lies inside the output directory.
C29_StaysInsideOutputDir ==
    exOp = "extractFile" =>
        /\ InsideOutputDir(ExtractedPath)
        /\ \A p \in TouchedPaths : InsideOutputDir(p)



(***************************************************************************)
(* Claims about the bounded queue, checked under SpecPool.                 *)
(***************************************************************************)
\* C28: in every reachable state of a pool, whatever the producers and the
\* workers do, the number of queued tasks is at most the capacity the pool
\* was constructed with.
C28_QueueWithinCapacity == \A p \in Pools : Len(tasks[p]) <= cap[p]

\* The queue is full and a producer waits for space while a worker runs.
C28_Witness ==
    /\ Len(tasks["process"]) = cap["process"]
    /\ \E t \in Producers : pc[t] = "enq_asleep"
    /\ \E u \in Producers : pc[u] = "enq" /\ held[u] # NoTask
    /\ ~shutdown["process"] /\ ~cancelled["process"]

(***************************************************************************)
(* Claims about Tokens::addMatchLong, checked under SpecMatch.             *)
(***************************************************************************)
\* C30: for every match the match finders emit, addMatchLong appends only
\* match tokens whose length is in 3..258 and whose distance is in
\* 1..32768 (the distance of the match), and the lengths of the tokens
\* appended for the match add up to the length of the match.
C30_MatchTokensInRange ==
    mtLength # 0 =>
        /\ mtTokens # <<>>
        /\ \A i \in 1..Len(mtTokens) :
              /\ TokenIsMatch(mtTokens[i])
              /\ TokenLength(mtTokens[i]) \in BASE_MATCH_LENGTH..MAX_MATCH_LENGTH
              /\ TokenDistance(mtTokens[i]) \in 1..MAX_MATCH_OFFSET
              /\ TokenDistance(mtTokens[i]) = mtDistance
        /\ Sum([i \in 1..Len(mtTokens) |-> TokenLength(mtTokens[i])],
               1, Len(mtTokens)) = mtLength

\* A match of 259..261 bytes at the largest distance: the first token is
\* shortened to 255 so that the remainder is a legal match.
C30_Witness ==
    /\ mtLength \in (MAX_MATCH_LENGTH + 1)..(MAX_MATCH_LENGTH + 3)
    /\ mtDistance = MAX_MATCH_OFFSET
    /\ Len(mtTokens) = 2
    /\ TokenLength(mtTokens[1]) = MAX_MATCH_LENGTH - 3

(***************************************************************************)
(* Claims about the Archiver's options, termination and the lifetime of    *)
(* its members and tasks, checked under SpecArchiveLevels, SpecArchiveLong *)
(* and SpecArchive.                                                        *)
(***************************************************************************)
\* C23: the compression level configured for the archiver selects the
\* encoder of every member's DEFLATE stream: the FlateWriter compress()
\* builds uses the match finder (L1 for levels 1-3, L4 above) and the
\* new-table penalty (8, 7, 6) of options_.compressionLevel.
C23_LevelSelectsEncoder ==
    usedLevel # 0 =>
        /\ UseL1(usedLevel) = UseL1(arLevel)
        /\ Penalty(usedLevel) = Penalty(arLevel)

\* The steps of the threads of the pipeline: the walker and the workers.
\* A spurious wake-up and a call of cancel() are not among them: nothing
\* makes them happen.
PipelineStep ==
    \/ MainOpen
    \/ MainStart
    \/ MainWalk
    \/ Enqueue(Main)
    \/ MainCloseProcess
    \/ MainJoinProcess
    \/ MainCloseWriter
    \/ MainJoinWriter
    \/ \E w \in Workers : WorkerLock(w)
    \/ \E w \in Workers : WorkerSleep(w)
    \/ \E w \in Workers : WorkerCheck(w)
    \/ \E w \in Workers : WorkerSetErr(w)
    \/ \E w \in CompressWorkers : CompressFile(w)
    \/ \E w \in CompressWorkers : Enqueue(w)
    \/ \E w \in CompressWorkers : CompressReturn(w)
    \/ ArchiveFile(WriterWorker)

\* C24: archive() terminates on every run, with any executor outcome and
\* any queue occupancy: as long as archive() has not returned, some thread
\* of the pipeline can take a step (the walker and the workers never all
\* wait for each other).
C24_ArchiveNeverStuck == archiveResult = "none" => ENABLED PipelineStep

\* C25: when the Archiver has been destroyed, every FileTask the walker
\* handed to the compress pool has been released to FileTaskPool exactly
\* once.
C25_HandedTasksReleasedOnce ==
    pc[Main] = "destroyed" => \A t \in handed : released[t] = 1

\* C27: no compress worker is at or inside fileWriterPool_->enqueue() once
\* the writer pool is destroyed, and the writer worker does not run
\* archiveFile once the ZipWriter is destroyed: the compress workers are
\* joined before the writer pool is destroyed, and the writer worker
\* before the ZipWriter.
C27_NoUseAfterDestroy ==
    /\ "writer" \in destroyed =>
          \A w \in Spawned("process") : pc[w] \in {"none", "exited"}
    /\ "zip" \in destroyed =>
          \A w \in Spawned("writer") : pc[w] \in {"none", "exited"}

(***************************************************************************)
(* Claims about a ZipWriter used by several threads, checked under         *)
(* SpecZipShared.                                                          *)
(***************************************************************************)
\* the threads inside createRaw() or close(), past the lock if there is one
InZipWriter ==
    {t \in Threads : pc[t] \in {"raw_lfh", "raw_data", "raw_dd", "raw_cd",
                                "z_cd", "z_eocd"}}

\* the parts createRaw() writes for member id, in the order it writes them
MemberParts(id) ==
    IF HasDescriptor(id)
    THEN << <<id, "lfh">>, <<id, "data">>, <<id, "dd">> >>
    ELSE << <<id, "lfh">>, <<id, "data">> >>

\* C26: every access to the file, to currentOffset_ and to centralDir_ is
\* exclusive: at most one thread is inside createRaw() or close() at a time
\* (so close() never runs while a createRaw() is in progress), and the
\* local header, data and descriptor of every recorded member lie next to
\* each other in the file, from the member's recorded offset on.
C26_WriterAccessExclusive ==
    /\ Cardinality(InZipWriter) <= 1
    /\ \A t \in InZipWriter : t \in CompressWorkers => writeMutex = t
    /\ \A i \in 1..Len(shDir) :
          LET parts == MemberParts(shDir[i].id)
          IN  /\ shDir[i].offset + Len(parts) <= Len(shFile)
              /\ SubSeq(shFile, shDir[i].offset + 1,
                        shDir[i].offset + Len(parts)) = parts

\* One worker is between the parts of a member while the other has a task
\* and waits for writeMutex_, after a member was already recorded.
C26_Witness ==
    /\ \E w \in CompressWorkers, v \in CompressWorkers :
          /\ pc[w] = "raw_data"
          /\ pc[v] = "exec"
          /\ held[v] # NoTask
    /\ shDir # <<>>


=========================================================================
